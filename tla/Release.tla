-------------------------------- MODULE Release --------------------------------
(***************************************************************************)
(* The release tool (x/release).  A run tags one Go module of the          *)
(* repository, writes the new version into the go.mod of every module that *)
(* depends on it, commits that, and goes on with those modules, each once  *)
(* the ones it depends on are done.  A git command, a file or the hook     *)
(* before a commit may fail at any step; the run stops there and leaves    *)
(* what it did.                                                            *)
(*                                                                         *)
(* git, the remote repository and the people who push, merge and reset are *)
(* external.  A commit is the requirements its go.mod files state and the  *)
(* set of its ancestors, itself included; only versions of requirements    *)
(* that are not marked indirect are kept, the tool writes no others.       *)
(***************************************************************************)
EXTENDS Integers, Sequences

CONSTANTS
  Module,     \* modules of the repository
  PathOrder,  \* Module as a sequence, in the order of their paths
  PathPrefix, \* pairs of modules, the first one's path a prefix of the second's
  Edge,       \* pairs <<m, d>>: m may require d
  Levels,     \* release levels in use: subset of {"patch", "minor", "major"}
  MaxRuns,    \* bound: runs of the tool
  MaxMerges,  \* bound: commits others merge
  NoModule, NoVersion,
  Failing     \* whether steps of the tool may fail

\* What the constants have to be.
ReleaseAssumption ==
  /\ PathOrder \in Seq(Module) /\ {PathOrder[i] : i \in DOMAIN PathOrder} = Module
  /\ \A i, j \in DOMAIN PathOrder :
       /\ PathOrder[i] = PathOrder[j] => i = j
       /\ <<PathOrder[i], PathOrder[j]>> \in PathPrefix => i < j
  /\ PathPrefix \subseteq Module \X Module
  /\ Edge \subseteq Module \X Module /\ \A m \in Module : <<m, m>> \notin Edge
  /\ Levels \subseteq {"patch", "minor", "major"}
  /\ {MaxRuns, MaxMerges} \subseteq Nat
  /\ NoModule \notin Module
  /\ Failing \in BOOLEAN

\* What the repository's modules have to be for BumpModInFile, which takes a
\* path for every path it begins: of two such modules no module requires both, or
\* the one that is taken for the other requires none, so that it is released first.
PrefixAssumption ==
  \A e \in PathPrefix : \/ \A k \in Module : ~ (<<k, e[1]>> \in Edge /\ <<k, e[2]>> \in Edge)
                        \/ \A d \in Module : <<e[1], d>> \notin Edge

VARIABLES
  require,  \* per pair of modules: "none", "direct" or "indirect"
  work,     \* the working tree: versions of direct requirements
  hist,     \* all commits
  head,     \* HEAD
  origin,   \* the tip of the remote default branch
  tags,     \* tags: module, version, commit, and the run that made it
  pushed,   \* those that are in the remote repository
  pc,       \* where the run is
  opts,     \* its arguments: module, level, propagate, skipGit
  current,  \* versions newRepoData has read
  deps,     \* RepoData: modules not yet removed, with their dependencies
  queue,    \* downstream modules still to be released
  mod,      \* the module BumpModule works on
  todo,     \* go.mod files it still has to edit
  modified, \* needsCommit
  result,   \* how the last run ended: "none", "ok", "error", "stuck"
  runs, merges

tree == <<require, work, hist, head, origin>>
repo == <<tags, pushed>>
loop == <<opts, current, deps, queue>>
bump == <<mod, todo, modified>>
vars == <<require, work, hist, head, origin, tags, pushed, pc, opts, current, deps, queue,
          mod, todo, modified, result, runs, merges>>

Version == Nat \X Nat \X Nat
NoOpts  == [mod |-> NoModule, level |-> "patch", propagate |-> FALSE, skipGit |-> FALSE]
Tag     == [mod : Module, ver : Version, at : Nat, run : Nat]

\* The types of the variables; tags and branches point at commits.
TypeOK ==
  /\ require \in [Module \X Module -> {"none", "direct", "indirect"}]
  /\ work \in [Module \X Module -> Version \cup {NoVersion}]
  /\ \A i \in DOMAIN hist :
       hist[i].anc \subseteq 1..i /\ hist[i].req \in [Module \X Module -> Version \cup {NoVersion}]
  /\ {head, origin} \subseteq DOMAIN hist
  /\ tags \subseteq Tag /\ {t.at : t \in tags} \subseteq DOMAIN hist
  /\ pushed \subseteq tags
  /\ pc \in {"idle", "tag", "push", "edit", "hook", "commit", "next"}
  /\ queue \subseteq Module /\ todo \subseteq Module
  /\ DOMAIN deps \subseteq Module /\ \A m \in DOMAIN deps : deps[m] \subseteq Module
  /\ mod \in Module \cup {NoModule}
  /\ modified \in BOOLEAN
  /\ result \in {"none", "ok", "error", "stuck"}
  /\ runs \in 0..MaxRuns /\ merges \in 0..MaxMerges

-----------------------------------------------------------------------------
(* Modules and versions *)

\* getDirectProjectDependencies, which lists indirect requirements too, and
\* the reverse that addDownstreamDep builds.
Dependencies(m) == {d \in Module : require[m, d] # "none"}
Downstreams(m)  == {k \in Module : m \in Dependencies(k)}

Above(v, w) ==
  \/ v[1] > w[1]
  \/ v[1] = w[1] /\ v[2] > w[2]
  \/ v[1] = w[1] /\ v[2] = w[2] /\ v[3] > w[3]

\* getLatestVersion: the first of the sorted tags, v0.0.0 if there is none.
LatestVersion(m) ==
  LET own == {t.ver : t \in {u \in tags : u.mod = m}} IN
  IF own = {} THEN <<0, 0, 0>> ELSE CHOOSE v \in own : \A w \in own \ {v} : Above(v, w)

\* GetNextVersion; a suffix such as -do.not.use, which a module keeps or loses
\* and no two of its tags differ in, is left out.
NextVersion(v, level) ==
  CASE level = "major" -> <<v[1] + 1, 0, 0>>
    [] level = "minor" -> <<v[1], v[2] + 1, 0>>
    [] level = "patch" -> <<v[1], v[2], v[3] + 1>>

\* The version BumpModule gives to m: downstream modules get patch releases.
Released(m) == NextVersion(current[m], IF m = opts.mod THEN opts.level ELSE "patch")

\* RemoveModule, for all modules of S.
RemoveModules(d, S) == [m \in DOMAIN d \ S |-> d[m] \ S]

\* BumpModInFile: the first direct requirement of k whose path begins with the
\* path of m.
BumpTarget(k, m) ==
  LET hits == {i \in DOMAIN PathOrder :
                 /\ require[k, PathOrder[i]] = "direct"
                 /\ PathOrder[i] = m \/ <<m, PathOrder[i]>> \in PathPrefix}
  IN  {PathOrder[i] : i \in {j \in hits : \A h \in hits : j <= h}}

-----------------------------------------------------------------------------
Init ==
  /\ \E f \in [Edge -> {"none", "direct", "indirect"}] :
       require = [e \in Module \X Module |-> IF e \in Edge THEN f[e] ELSE "none"]
  /\ work = [e \in Module \X Module |-> IF require[e] = "direct" THEN <<0, 0, 0>> ELSE NoVersion]
  /\ hist = <<[anc |-> {1}, req |-> work]>>
  /\ head = 1 /\ origin = 1
  /\ tags = {} /\ pushed = {}
  /\ pc = "idle" /\ opts = NoOpts /\ result = "none"
  /\ current = [m \in Module |-> <<0, 0, 0>>]
  /\ deps = <<>> /\ queue = {}
  /\ mod = NoModule /\ todo = {} /\ modified = FALSE
  /\ runs = 0 /\ merges = 0

Ends(r) ==
  /\ pc' = "idle"
  /\ result' = r
  /\ opts' = NoOpts
  /\ deps' = <<>> /\ queue' = {}
  /\ mod' = NoModule /\ todo' = {} /\ modified' = FALSE
  /\ UNCHANGED current

\* Variant: the ref is not verified.
VerifyReleaseRef_Skipped == TRUE

\* verifyReleaseRef: HEAD is the fetched tip of the remote default branch.
VerifyReleaseRef == head = origin

\* The bump command: check, newRepoData, and the first BumpModule.
Start(o) ==
  /\ pc = "idle"
  /\ runs < MaxRuns
  /\ o.skipGit \/ VerifyReleaseRef
  /\ opts' = o
  /\ current' = [m \in Module |-> LatestVersion(m)]
  /\ deps' = [m \in Module |-> Dependencies(m)]
  /\ mod' = o.mod
  /\ pc' = "tag"
  /\ result' = "none"
  /\ runs' = runs + 1
  /\ UNCHANGED <<tree, repo, queue, todo, modified, merges>>

\* projectFS.GitTag: git tag, on HEAD; --skip-git only says so.
GitTag ==
  /\ pc = "tag"
  /\ tags' = IF opts.skipGit THEN tags
             ELSE tags \cup {[mod |-> mod, ver |-> Released(mod), at |-> head, run |-> runs]}
  /\ pc' = IF opts.propagate /\ ~opts.skipGit THEN "push" ELSE "edit"
  /\ todo' = Downstreams(mod)
  /\ UNCHANGED <<tree, pushed, loop, mod, modified, result, runs, merges>>

\* projectFS.GitTag: git push --tags.
GitPushTags ==
  /\ pc = "push"
  /\ pushed' = tags
  /\ pc' = "edit"
  /\ UNCHANGED <<tree, tags, loop, bump, result, runs, merges>>

\* BumpModInFile for the next downstream module.
BumpModInFile(k) ==
  /\ pc = "edit"
  /\ k \in todo
  /\ work' = [e \in Module \X Module |->
       IF e[1] = k /\ e[2] \in BumpTarget(k, mod) THEN Released(mod) ELSE work[e]]
  /\ modified' = (modified \/ BumpTarget(k, mod) # {})
  /\ todo' = todo \ {k}
  /\ UNCHANGED <<require, hist, head, origin, repo, pc, loop, mod, result, runs, merges>>

\* All files are edited: BumpModule commits if it changed one.
EditsDone ==
  /\ pc = "edit"
  /\ todo = {}
  /\ pc' = IF modified THEN "hook" ELSE "next"
  /\ UNCHANGED <<tree, repo, loop, bump, result, runs, merges>>

\* projectFS.GitCommit: beforeCommitHook, "make mod", touches no version of a
\* direct requirement.
BeforeCommitHook ==
  /\ pc = "hook"
  /\ pc' = IF opts.skipGit THEN "next" ELSE "commit"
  /\ UNCHANGED <<tree, repo, loop, bump, result, runs, merges>>

\* git commit -a: everything that differs in the working tree.
GitCommit ==
  /\ pc = "commit"
  /\ hist' = Append(hist, [anc |-> hist[head].anc \cup {Len(hist) + 1}, req |-> work])
  /\ head' = Len(hist) + 1
  /\ pc' = "next"
  /\ UNCHANGED <<require, work, origin, repo, loop, bump, result, runs, merges>>

\* "reduce the repo data to only the downstream modules".
Reduce(d, q) == RemoveModules(d, Module \ q)

\* GetDependencyCount is zero.
Ready(q, d) == {m \in q : m \notin DOMAIN d \/ d[m] = {}}

\* BumpModule has returned: BumpIterative picks the next module, in the order
\* in which the map yields it.
NextModule ==
  LET isFirst == mod = opts.mod
      q == IF isFirst THEN Downstreams(mod) ELSE queue \ {mod}
      d == IF isFirst THEN Reduce(deps, q) ELSE RemoveModules(deps, {mod})
  IN
  /\ pc = "next"
  /\ \/ /\ ~opts.propagate \/ q = {}
        /\ Ends("ok")
     \/ /\ opts.propagate /\ q # {} /\ Ready(q, d) = {}
        /\ Ends("stuck")
     \/ /\ opts.propagate
        /\ \E m \in Ready(q, d) : mod' = m
        /\ queue' = q
        /\ deps' = d
        /\ modified' = FALSE
        /\ pc' = "tag"
        /\ UNCHANGED <<opts, current, todo, result>>
  /\ UNCHANGED <<tree, repo, runs, merges>>

\* A command fails, a file cannot be written, or the run is interrupted.
StepFails ==
  /\ Failing
  /\ pc \in {"tag", "push", "edit", "hook", "commit"}
  /\ Ends("error")
  /\ UNCHANGED <<tree, repo, runs, merges>>

-----------------------------------------------------------------------------
(* The people around the tool *)

\* Somebody merges a change of the source into the default branch.
Merge ==
  /\ merges < MaxMerges
  /\ hist' = Append(hist, [anc |-> hist[origin].anc \cup {Len(hist) + 1}, req |-> hist[origin].req])
  /\ origin' = Len(hist) + 1
  /\ merges' = merges + 1
  /\ UNCHANGED <<require, work, head, repo, pc, loop, bump, result, runs>>

\* The local commits are pushed, if the remote branch is behind.
Push ==
  /\ pc = "idle" /\ head # origin
  /\ origin \in hist[head].anc
  /\ origin' = head
  /\ UNCHANGED <<require, work, hist, head, repo, pc, loop, bump, result, runs, merges>>

\* The local branch is reset to the remote one: a pull, or git reset --hard.
Reset ==
  /\ pc = "idle"
  /\ head # origin \/ work # hist[origin].req
  /\ head' = origin
  /\ work' = hist[origin].req
  /\ UNCHANGED <<require, hist, origin, repo, pc, loop, bump, result, runs, merges>>

Next ==
  \/ \E m \in Module, l \in Levels, p, s \in BOOLEAN :
       Start([mod |-> m, level |-> l, propagate |-> p, skipGit |-> s])
  \/ GitTag \/ GitPushTags \/ EditsDone \/ BeforeCommitHook \/ GitCommit
  \/ \E k \in Module : BumpModInFile(k)
  \/ NextModule \/ StepFails
  \/ Merge \/ Push \/ Reset

Spec == Init /\ [][Next]_vars

-----------------------------------------------------------------------------
(* Properties *)

\* The modules of S depend on each other in a circle, or lead into one.
Circular(S) == S # {} /\ \A m \in S : Dependencies(m) \cap S # {}

\* Modules are released in dependency order (BumpIterative): at the commit a
\* module is tagged on, its go.mod requires, of every other module the same run
\* has tagged, the version tagged in this run, whatever earlier runs failed on
\* or left in the working tree.
ReleasesFitTogether ==
  result = "ok" /\ (\A S \in SUBSET Module : ~Circular(S)) =>
    \A t, u \in {x \in tags : x.run = runs} :
      require[t.mod, u.mod] = "direct" => hist[t.at].req[t.mod, u.mod] = u.ver

\* "Refuse to tag unless HEAD matches the fetched remote default branch tip"
\* (verifyReleaseRef): what a run tags before it commits lies on the remote
\* branch, however many local commits earlier runs have left.
FirstTagOnBranch ==
  \A t \in tags : (\A u \in tags : u.run = t.run => t.at <= u.at) => t.at \in hist[origin].anc

\* "could not determine next module" (BumpIterative) means that the modules
\* depend on each other in a circle.
OnlyCyclesStick == result = "stuck" => \E S \in SUBSET Module : Circular(S)

==============================================================================
