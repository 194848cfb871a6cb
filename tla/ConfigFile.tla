----------------------------- MODULE ConfigFile -----------------------------
(***************************************************************************)
(* .planning/config.json and the processes that rewrite it without a lock: *)
(* every command loads it (loadConfig in core.cjs) and so migrates old     *)
(* keys, config-set and config-new-project write it (config.cjs), and      *)
(* `validate health --repair` creates, resets or extends it (verify.cjs).  *)
(*                                                                         *)
(* The settings are abstracted to one that is migrated (depth, which       *)
(* became granularity), the list of sub-repositories with the flag it      *)
(* replaced, and one key that repair adds.                                 *)
(***************************************************************************)
EXTENDS Naturals, FiniteSets

CONSTANTS
  Procs,    \* processes
  Repos,    \* child directories with a .git
  Missing, Torn, None

VARIABLES
  config,   \* config.json: Missing, Torn while truncated, or its settings
  repos,    \* the child repositories there are
  cpc,      \* where each process is
  cbuf,     \* the text a process is going to write
  first,    \* history: the granularity at the start
  asked,    \* history: granularities somebody set or chose
  blank,    \* history: a configuration was made from nothing
  left      \* commands that may still start

Depths        == {"quick", "standard", "comprehensive"}
Granularities == {"coarse", "standard", "fine"}

Settings == [depth: Depths \cup {None}, granularity: Granularities \cup {None},
             multiRepo: BOOLEAN, sub_repos: SUBSET Repos, nyquist: BOOLEAN]

Nothing == [depth |-> None, granularity |-> None, multiRepo |-> FALSE,
            sub_repos |-> {}, nyquist |-> FALSE]

\* A configuration written by this version, and one by an old version.
Fresh(g)  == [depth |-> None, granularity |-> g, multiRepo |-> FALSE,
              sub_repos |-> {}, nyquist |-> TRUE]
Old(d, m) == [depth |-> d, granularity |-> None, multiRepo |-> m,
              sub_repos |-> {}, nyquist |-> FALSE]

depthToGranularity ==
  [d \in Depths |-> CASE d = "quick" -> "coarse" [] d = "standard" -> "standard"
                      [] d = "comprehensive" -> "fine"]

\* depth becomes granularity, unless there is one.
MigrateDepth(c) ==
  IF c.depth # None /\ c.granularity = None
  THEN [c EXCEPT !.granularity = depthToGranularity[c.depth], !.depth = None] ELSE c

\* multiRepo becomes a list, and a list follows the directories there are.
SyncRepos(c) ==
  LET m == IF c.multiRepo /\ c.sub_repos = {} /\ repos # {}
           THEN [c EXCEPT !.sub_repos = repos, !.multiRepo = FALSE] ELSE c
  IN  IF m.sub_repos # {} /\ repos # {} THEN [m EXCEPT !.sub_repos = repos] ELSE m

\* The granularity in force.
Effective(c) ==
  IF c.granularity # None \/ c.depth = None THEN c.granularity ELSE depthToGranularity[c.depth]

Begin == left > 0 /\ left' = left - 1

-----------------------------------------------------------------------------
\* No configuration yet, an old one, or one with a granularity.
Init ==
  /\ config \in {Missing, Fresh("coarse")}
                \cup {Old(d, m) : d \in {"standard", "comprehensive"}, m \in BOOLEAN}
  /\ repos \in SUBSET Repos
  /\ cpc = [p \in Procs |-> "idle"]
  /\ cbuf = [p \in Procs |-> Missing]
  /\ first = IF config = Missing THEN None ELSE Effective(config)
  /\ asked = {}
  /\ blank = (config = Missing)

\* A process that has read the file is going to write c.
Rewrite(p, c) ==
  /\ cpc' = [cpc EXCEPT ![p] = "truncate"]
  /\ cbuf' = [cbuf EXCEPT ![p] = c]

\* loadConfig: a file that cannot be parsed gives the defaults, unwritten; a
\* migrated depth is written at once, the repositories in a write of their own.
loadConfig(p) ==
  /\ cpc[p] = "idle" /\ Begin
  /\ config \notin {Missing, Torn}
  /\ IF MigrateDepth(config) # config
     THEN /\ cpc' = [cpc EXCEPT ![p] = "migrate"]
          /\ cbuf' = [cbuf EXCEPT ![p] = MigrateDepth(config)]
     ELSE SyncRepos(config) # config /\ Rewrite(p, SyncRepos(config))
  /\ UNCHANGED <<config, repos, first, asked, blank>>

\* config-set granularity: an unreadable file is an error.
ConfigSet(p, g) ==
  /\ cpc[p] = "idle" /\ Begin
  /\ config # Torn
  /\ Rewrite(p, [(IF config = Missing THEN Nothing ELSE config) EXCEPT !.granularity = g])
  /\ asked' = asked \cup {g}
  /\ UNCHANGED <<config, repos, first, blank>>

MutSetConfigValue(p) ==
  /\ cpc[p] = "idle" /\ Begin
  /\ Rewrite(p, [(IF config \in {Missing, Torn} THEN Nothing ELSE config) EXCEPT !.nyquist = TRUE])
  /\ UNCHANGED <<config, repos, first, asked, blank>>
\* config-set, or config-set-model-profile, of another key.
setConfigValue(p) ==
  /\ cpc[p] = "idle" /\ Begin
  /\ config # Torn
  /\ Rewrite(p, [(IF config = Missing THEN Nothing ELSE config) EXCEPT !.nyquist = TRUE])
  /\ UNCHANGED <<config, repos, first, asked, blank>>

\* config-new-project with a choice, config-ensure-section without: only
\* when there is no file.
NewProject(p, g) ==
  /\ cpc[p] = "idle" /\ Begin
  /\ config = Missing
  /\ Rewrite(p, Fresh(g))
  /\ asked' = asked \cup ({g} \ {None})
  /\ UNCHANGED <<config, repos, first, blank>>

\* What repair makes of the file: a new one when it is missing or cannot be
\* parsed, the key it lacks otherwise.
Repaired == IF config \in {Missing, Torn} THEN Fresh(None)
            ELSE [config EXCEPT !.nyquist = TRUE]

\* The configuration's part of `validate health --repair`.
RepairConfig(p) ==
  /\ cpc[p] = "idle" /\ Begin
  /\ IF Repaired = config THEN UNCHANGED <<cpc, cbuf>> ELSE Rewrite(p, Repaired)
  /\ blank' = (blank \/ config = Torn)
  /\ UNCHANGED <<config, repos, first, asked>>

\* writeFileSync: truncate, then fill.
Truncate(p) ==
  /\ cpc[p] \in {"truncate", "migrate"}
  /\ config' = Torn
  /\ cpc' = [cpc EXCEPT ![p] = IF @ = "truncate" THEN "fill" ELSE "migrating"]
  /\ UNCHANGED <<repos, cbuf, first, asked, blank, left>>

\* loadConfig goes on from the text in its memory, not from the file.
Fill(p) ==
  /\ cpc[p] \in {"fill", "migrating"}
  /\ config' = cbuf[p]
  /\ IF cpc[p] = "migrating" /\ SyncRepos(cbuf[p]) # cbuf[p]
     THEN Rewrite(p, SyncRepos(cbuf[p]))
     ELSE /\ cpc' = [cpc EXCEPT ![p] = "idle"]
          /\ cbuf' = [cbuf EXCEPT ![p] = Missing]
  /\ UNCHANGED <<repos, first, asked, blank, left>>

\* The process is killed before or in the middle of the write.
Kill(p) ==
  /\ cpc[p] # "idle"
  /\ cpc' = [cpc EXCEPT ![p] = "idle"]
  /\ cbuf' = [cbuf EXCEPT ![p] = Missing]
  /\ UNCHANGED <<config, repos, first, asked, blank, left>>

Next ==
  \E p \in Procs :
    \/ loadConfig(p) \/ setConfigValue(p)
    \/ \E g \in {"standard", "fine"} : ConfigSet(p, g)
    \/ \E g \in {"standard", "fine", None} : NewProject(p, g)
    \/ Truncate(p) \/ Fill(p) \/ Kill(p)

-----------------------------------------------------------------------------
\* Whatever unlocked rewrites, migrations, repairs and kills interleave, the
\* granularity in force is one somebody set, or the one of the start; it is
\* gone only if the file was missing or repair found it half written.
SettingGenuine ==
  config \notin {Missing, Torn} =>
    Effective(config) \in asked \cup {first} \cup (IF blank THEN {None} ELSE {})
=============================================================================
