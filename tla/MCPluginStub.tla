---------------------------- MODULE MCPluginStub ----------------------------
(***************************************************************************)
(* The ways of a plugin's process: its stub (PluginStub), the two ways it  *)
(* gets its connection, over an HTTP connection it dials (Hijack) or from  *)
(* the engine that launches it (ConnectionPair), and the child of docker   *)
(* pass run (PassRun).  A behaviour is one of one part; the others rest.   *)
(***************************************************************************)
EXTENDS PluginStub, TLC

CONSTANTS MaxBytes, HijackFaults
CONSTANTS LaunchFaults
CONSTANTS Var, Ref, Plain, MaxFiles, MaxSignals, Sent

VARIABLES
  part,  \* which one a behaviour is about
  toEngine, toPlugin, plugin, br, deadline, handler, callback, brw, rbuf, server, open,
  hsent, hgot,                                                \* the variables of Hijack
  platform, fds, readers, launch, other, cfg, pairChild,      \* those of ConnectionPair
  files, answer, runPc, next, merged, todo, env, notified, sigCh, forwarder, doneCh, child, reaped,
  code, accepted, delivered, killer, sent                     \* those of PassRun

H  == INSTANCE Hijack WITH Faults <- HijackFaults, sent <- hsent, got <- hgot
CP == INSTANCE ConnectionPair WITH Faults <- LaunchFaults, child <- pairChild
PR == INSTANCE PassRun WITH pc <- runPc

ASSUME HijackAssumed == H!HijackAssumption
ASSUME PairAssumed == CP!PairAssumption
ASSUME RunAssumed == PR!RunAssumption

hVars  == <<toEngine, toPlugin, plugin, br, deadline, handler, callback, brw, rbuf, server, open,
            hsent, hgot>>
cpVars == <<platform, fds, readers, launch, other, cfg, pairChild>>
prVars == <<files, answer, runPc, next, merged, todo, env, notified, sigCh, forwarder, doneCh, child,
            reaped, code, accepted, delivered, killer, sent>>

PairRest == CP!Init /\ platform = "linux"
RunRest  == PR!Init /\ files = << <<>> >> /\ answer = [r \in Ref |-> "one"]

MCInit ==
  /\ Init /\ H!Init
  /\ \/ part \in {"stub", "hijack"} /\ PairRest /\ RunRest
     \/ part = "pair" /\ CP!Init /\ RunRest
     \/ part = "run" /\ PairRest /\ PR!Init

MCNext ==
  \/ part = "stub" /\ Next /\ UNCHANGED <<part, hVars, cpVars, prVars>>
  \/ part = "hijack" /\ H!Next /\ UNCHANGED <<part, vars, cpVars, prVars>>
  \/ part = "pair" /\ CP!Next /\ UNCHANGED <<part, vars, hVars, prVars>>
  \/ part = "run" /\ PR!Next /\ UNCHANGED <<part, vars, hVars, cpVars>>

\* With the fairness of PluginStub and of PassRun, for the part that runs.
MCSpec ==
  /\ MCInit /\ [][MCNext]_<<part, vars, hVars, cpVars, prVars>>
  /\ \A r \in Run :
       /\ WF_vars(part = "stub" /\ Main(r)) /\ WF_vars(part = "stub" /\ Server(r))
       /\ WF_vars(part = "stub" /\ Teardown(r)) /\ WF_vars(part = "stub" /\ CloserWakes(r))
  /\ WF_prVars(part = "run" /\ PR!Main) /\ WF_prVars(part = "run" /\ PR!Forward)

\* The types of the part that runs.
ProcessTypeOK ==
  CASE part = "stub" -> TypeOK
    [] part = "hijack" -> H!TypeOK
    [] part = "pair" -> CP!TypeOK
    [] part = "run" -> PR!TypeOK

\* A plugin's connection reaches it whole and private: what one side writes
\* after the switch from HTTP the other side reads, from the first byte on
\* (Hijack, Hijackify), and only the engine and the plugin it launches hold an
\* end of their connection (ConnectionPair, newSocketFD).
ConnectionIsWhole == H!SwitchLosesNothing /\ CP!PairIsPrivate

\* docker pass run stands for its child: the signals it forwards do not kill it,
\* environment and exit code are right (PassRun, RunCommand).
RunIsTransparent == PR!RunIsTransparent

\* Every signal taken for the child is sent on to it (PassRun, the forwarder).
SignalsReachChild == PR!SignalsReachChild
==============================================================================
