------------------------------- MODULE PassRun -------------------------------
(***************************************************************************)
(* docker pass run (plugins/pass/commands/run.go and run_unix.go): the     *)
(* environment is merged and its se:// references resolved, the child is   *)
(* started in a process group of its own, and a goroutine forwards the     *)
(* signals the command receives.  The kernel, os/signal's delivery, the    *)
(* user who sends signals and the child are external.                      *)
(***************************************************************************)
EXTENDS Integers, Sequences

CONSTANTS
  Var,         \* names of variables
  Ref,         \* references: values that start with se://
  Plain,       \* other values
  MaxFiles,    \* bound: --env-file arguments
  MaxSignals,  \* bound: signals the user sends
  Sent         \* the signals the user sends: subset of Signals

\* The signals the command asks for; SIGQUIT (Ctrl-\) is not among them.
forwardableSignals == {"INT", "TERM", "HUP"}
Signals == forwardableSignals \cup {"QUIT"}

\* What the constants have to be.
RunAssumption ==
  /\ {MaxFiles, MaxSignals} \subseteq Nat /\ Ref \cap Plain = {}
  /\ Sent \subseteq Signals

VARIABLES
  files,    \* the process environment, then what each env-file defines
  answer,   \* per reference: "one", "none", "many", "error" or "invalid"
  pc,       \* where the command is
  next,     \* the source mergeEnv reads next
  merged,   \* the merged environment, a function of its variables
  todo,     \* variables that are not resolved yet
  env,      \* the environment of the child
  notified, \* TRUE between signal.Notify and signal.Stop
  sigCh,    \* the signal in the channel, which has room for one, or "none"
  forwarder,\* the goroutine: "off", "select", "done" or the signal it has received
  doneCh,   \* TRUE once the channel done is closed
  child,    \* "none", "running", "exited", "failed" or "killed"
  reaped,   \* TRUE once Wait has returned
  code,     \* the command's exit code, -1 before
  accepted, \* auxiliary: per signal, how many the channel has taken
  delivered,\* auxiliary: per signal, how many were sent to the child's group
  killer,   \* auxiliary: the signal that killed the command, or "none"
  sent

vars == <<files, answer, pc, next, merged, todo, env, notified, sigCh, forwarder, doneCh, child, reaped,
          code, accepted, delivered, killer, sent>>
envVars == <<files, answer, next, merged, todo, env>>
signalVars == <<accepted, delivered, killer, sent>>
runVars == <<notified, sigCh, forwarder, doneCh, child, reaped, code, signalVars>>

Environment == UNION {[D -> Ref \cup Plain] : D \in SUBSET Var}
Resolved(v) == <<"secret", v>>
SignalCode == 130
FailureCode == 7
Errors == 1

\* The types of the variables.
TypeOK ==
  /\ files \in Seq(Environment) /\ next \in 1..Len(files) + 1
  /\ answer \in [Ref -> {"one", "none", "many", "error", "invalid"}]
  /\ pc \in {"merge", "resolve", "start", "forward", "wait", "reap", "returned", "dead"}
  /\ merged \in Environment
  /\ todo \subseteq DOMAIN merged /\ DOMAIN env \subseteq DOMAIN merged
  /\ notified \in BOOLEAN /\ doneCh \in BOOLEAN /\ reaped \in BOOLEAN
  /\ sigCh \in forwardableSignals \cup {"none"}
  /\ forwarder \in forwardableSignals \cup {"off", "select", "done"}
  /\ child \in {"none", "running", "exited", "failed", "killed"}
  /\ accepted \in [forwardableSignals -> Nat] /\ delivered \in [forwardableSignals -> Nat]
  /\ killer \in Signals \cup {"none"}
  /\ code \in {-1, 0, Errors, FailureCode, SignalCode}
  /\ sent \in 0..MaxSignals

Init ==
  /\ \E n \in 0..MaxFiles : files \in [1..(n + 1) -> Environment]
  /\ answer \in [Ref -> {"one", "none", "many", "error", "invalid"}]
  /\ pc = "merge"
  /\ next = 1 /\ merged = <<>> /\ todo = {} /\ env = <<>>
  /\ notified = FALSE /\ sigCh = "none"
  /\ forwarder = "off" /\ doneCh = FALSE
  /\ child = "none" /\ reaped = FALSE
  /\ code = -1
  /\ accepted = [s \in forwardableSignals |-> 0] /\ delivered = accepted
  /\ killer = "none" /\ sent = 0

-----------------------------------------------------------------------------
(* The environment *)

Override(f, g) == [x \in DOMAIN f \cup DOMAIN g |-> IF x \in DOMAIN g THEN g[x] ELSE f[x]]

\* mergeEnv, one source: the process environment first, then each file in
\* order; what is read later overrides.
mergeEnv ==
  /\ pc = "merge" /\ next <= Len(files)
  /\ merged' = Override(merged, files[next])
  /\ next' = next + 1
  /\ UNCHANGED <<files, answer, pc, todo, env, runVars>>

\* All are merged, and the client is made.
Merge ==
  /\ pc = "merge" /\ next > Len(files)
  /\ todo' = DOMAIN merged
  /\ pc' = "resolve"
  /\ UNCHANGED <<files, answer, next, merged, env, runVars>>

\* godotenv.Read or client.New fails.
MergeFails ==
  /\ pc = "merge"
  /\ pc' = "returned"
  /\ code' = Errors
  /\ UNCHANGED <<envVars, notified, sigCh, forwarder, doneCh, child, reaped, signalVars>>

\* resolveEnv and resolveRef, one variable: a reference must be an identifier,
\* and exactly one secret must match.
ResolveRef(x) ==
  /\ pc = "resolve"
  /\ x \in todo
  /\ IF merged[x] \in Plain \/ answer[merged[x]] = "one"
     THEN /\ env' = Override(env, [y \in {x} |->
                      IF merged[x] \in Plain THEN merged[x] ELSE Resolved(merged[x])])
          /\ todo' = todo \ {x}
          /\ UNCHANGED <<pc, code>>
     ELSE pc' = "returned" /\ code' = Errors /\ UNCHANGED <<env, todo>>
  /\ UNCHANGED <<files, answer, next, merged, notified, sigCh, forwarder, doneCh, child, reaped,
                 signalVars>>

-----------------------------------------------------------------------------
(* The child *)

\* Variant: no handler while the child is started.
Notify_Late ==
  /\ pc = "resolve" /\ todo = {}
  /\ pc' = "start"
  /\ UNCHANGED <<envVars, runVars>>

\* signal.Notify, before the child is started.
Notify ==
  /\ pc = "resolve" /\ todo = {}
  /\ notified' = TRUE
  /\ pc' = "start"
  /\ UNCHANGED <<envVars, sigCh, forwarder, doneCh, child, reaped, code, signalVars>>

Start ==
  /\ pc = "start"
  /\ child' = "running"
  /\ pc' = "forward"
  /\ UNCHANGED <<envVars, notified, sigCh, forwarder, doneCh, reaped, code, signalVars>>

StartFails ==
  /\ pc = "start"
  /\ pc' = "returned"
  /\ code' = Errors
  /\ notified' = FALSE
  /\ UNCHANGED <<envVars, sigCh, forwarder, doneCh, child, reaped, signalVars>>

StartForwarder ==
  /\ pc = "forward"
  /\ forwarder' = "select"
  /\ pc' = "wait"
  /\ UNCHANGED <<envVars, notified, sigCh, doneCh, child, reaped, code, signalVars>>

\* childExitCode: the child's own code, or 128 and the signal.
childExitCode == CASE child = "exited" -> 0 [] child = "failed" -> FailureCode [] OTHER -> SignalCode

\* child.Wait() returns, and close(done).
Wait ==
  /\ pc = "wait"
  /\ child \in {"exited", "failed", "killed"}
  /\ reaped' = TRUE
  /\ doneCh' = TRUE
  /\ pc' = "reap"
  /\ UNCHANGED <<envVars, notified, sigCh, forwarder, child, code, signalVars>>

\* The deferred signal.Stop and the result.
Return ==
  /\ pc = "reap"
  /\ notified' = FALSE
  /\ code' = childExitCode
  /\ pc' = "returned"
  /\ UNCHANGED <<envVars, sigCh, forwarder, doneCh, child, reaped, signalVars>>

-----------------------------------------------------------------------------
(* The forwarder *)

\* Variant: a forwarder that ends with the first signal.
SignalChild_Once ==
  /\ forwarder \in forwardableSignals
  /\ forwarder' = "done"
  /\ delivered' = [delivered EXCEPT ![forwarder] = @ + 1]
  /\ child' \in IF child = "running" THEN {"running", "killed", "exited"} ELSE {child}
  /\ UNCHANGED <<envVars, pc, notified, sigCh, doneCh, reaped, code, accepted, killer, sent>>

\* select: a signal, or done; either if both are ready.
Select ==
  /\ forwarder = "select"
  /\ \/ sigCh # "none" /\ sigCh' = "none" /\ forwarder' = sigCh
     \/ doneCh /\ forwarder' = "done" /\ UNCHANGED sigCh
  /\ UNCHANGED <<envVars, pc, notified, doneCh, child, reaped, code, signalVars>>

\* signalChild, kill(2) on the child's process group: the child takes the signal
\* in its own way.  Once it is reaped only what is left of its group is reached.
SignalChild ==
  /\ forwarder \in forwardableSignals
  /\ forwarder' = "select"
  /\ delivered' = [delivered EXCEPT ![forwarder] = @ + 1]
  /\ child' \in IF child = "running" THEN {"running", "killed", "exited"} ELSE {child}
  /\ UNCHANGED <<envVars, pc, notified, sigCh, doneCh, reaped, code, accepted, killer, sent>>

-----------------------------------------------------------------------------
(* The user and the child *)

\* os/signal does not block: what finds no room is dropped, also where the
\* channel holds a signal of another kind.
Deliver(s) ==
  IF sigCh = "none"
  THEN sigCh' = s /\ accepted' = [accepted EXCEPT ![s] = @ + 1]
  ELSE UNCHANGED <<sigCh, accepted>>

\* A signal for the command.  A signal without a handler kills the process, and
\* its goroutine with it; the child, in a group of its own, goes on.
Signal(s) ==
  /\ pc \notin {"returned", "dead"}
  /\ sent < MaxSignals
  /\ sent' = sent + 1
  /\ IF notified /\ s \in forwardableSignals
     THEN Deliver(s) /\ UNCHANGED <<pc, forwarder, killer>>
     ELSE /\ pc' = "dead" /\ forwarder' = "off" /\ killer' = s
          /\ UNCHANGED <<sigCh, accepted>>
  /\ UNCHANGED <<envVars, notified, doneCh, child, reaped, code, delivered>>

ChildEnds ==
  /\ child = "running"
  /\ child' \in {"exited", "failed", "killed"}
  /\ UNCHANGED <<envVars, pc, notified, sigCh, forwarder, doneCh, reaped, code, signalVars>>

Main == mergeEnv \/ Merge \/ MergeFails \/ (\E x \in todo : ResolveRef(x)) \/ Notify \/ Start \/ StartFails
          \/ StartForwarder \/ Wait \/ Return
Forward == Select \/ SignalChild

Next == Main \/ Forward \/ (\E s \in Sent : Signal(s)) \/ ChildEnds

Spec == Init /\ [][Next]_vars
FairSpec == Spec /\ WF_vars(Main) /\ WF_vars(Forward)

-----------------------------------------------------------------------------
(* Properties *)

\* The value the last source that names the variable gives it.
LastOf(x) ==
  LET D == {i \in 1..Len(files) : x \in DOMAIN files[i]}
      i == CHOOSE i \in D : \A j \in D : j <= i
  IN  files[i][x]

\* The command stands for its child: no signal of those it forwards kills it once
\* the child has been started, at any step from the fork to the end (any other
\* does, and the child is left alone: SIGQUIT, which Ctrl-\ sends); a child runs
\* only with an environment in which each variable has its last definition and
\* each reference one secret's value; and the exit code is the child's
\* (RunCommand, forwardableSignals, resolveEnv, childExitCode).
RunIsTransparent ==
  /\ pc = "dead" /\ child # "none" => killer \notin forwardableSignals
  /\ child # "none" =>
       /\ DOMAIN env = UNION {DOMAIN files[i] : i \in 1..Len(files)}
       /\ \A x \in DOMAIN env :
            LET v == LastOf(x) IN IF v \in Plain THEN env[x] = v ELSE answer[v] = "one" /\ env[x] = Resolved(v)
  /\ pc = "returned" /\ child # "none" =>
       code = CASE child = "exited" -> 0 [] child = "failed" -> FailureCode [] OTHER -> SignalCode

\* Every signal the channel takes while the command starts or watches the child
\* is sent on as the same signal, the second and later ones too: again and again
\* all that were taken have been sent on, unless the child ends first or the
\* command is killed (the forwarder goroutine).  A signal that finds the channel
\* full is dropped and not covered.
SignalsReachChild ==
  []<>(delivered = accepted \/ child # "running" \/ pc = "dead")

==============================================================================
