------------------------- MODULE SecretServiceProofs -------------------------
(***************************************************************************)
(* Proofs about one operation over the Secret Service, for any number of   *)
(* retries and relocks.                                                    *)
(*                                                                         *)
(* PromptAndWait takes the first Completed signal without looking whose    *)
(* it is.  That an operation is not misled rests on two facts: before the  *)
(* last call whose outcome counts, a prompt that timed out ends the        *)
(* operation, so that the only prompt still open, or answered with its     *)
(* signal not yet taken, is the one that is waited for (SignalInv); and    *)
(* every later call of a script is one whose outcome Save ignores          *)
(* (OnlyFirstCounts).                                                      *)
(***************************************************************************)
EXTENDS SecretService, SequenceTheorems, TLAPS

Waiting(s) == pc = "prompt" /\ after \in s

\* Where the operation is in its script, and what it waits for.
CallInv ==
  /\ pc \in {"dial", "available", "session", "collection", "unlock", "search"} =>
       script = <<>> /\ at = 1
  /\ pc = "prompt" =>
       /\ after \in {"first", "retry", "work"}
       /\ prompts # <<>>
       /\ prompts[Len(prompts)].for = IF after = "work" THEN script[at] ELSE "unlock"
  /\ Waiting({"first"}) => script = <<>> /\ at = 1
  /\ pc \in {"work", "reunlock"} \/ Waiting({"retry", "work"}) => at \in 1..Len(script)
  /\ pc = "reunlock" \/ Waiting({"retry"}) => tries < MaxRetries
  /\ pc \notin {"close", "returned"} => res = "none"
  /\ res = "ok" => at = Len(script) + 1
  /\ op = "probe" => pc \in {"dial", "available", "close", "returned"}

\* What counts and is behind the operation has happened, and so has what a
\* confirmed prompt was for.
DoneInv ==
  /\ \A i \in 1..Len(script) : i < at /\ script[i] \notin BestEffort => script[i] \in done
  /\ \A i \in 1..Len(prompts) :
       prompts[i].state = "done" /\ prompts[i].for # "unlock" => prompts[i].for \in done

\* The outcome of the call the operation is at, or is about to reach, counts.
Counts == pc \notin {"close", "returned"} /\ (script = <<>> \/ script[at] \notin BestEffort)

\* A prompt that may still lead to a signal, or has led to one not yet taken.
Open(k) == prompts[k].state = "shown" \/ \E i \in 1..Len(signals) : signals[i] = k

\* A signal is that of an answered prompt and comes once; as long as the outcome
\* counts, the only open prompt is the one that is waited for.
SignalInv ==
  /\ \A i \in 1..Len(signals) : signals[i] # 0 => prompts[signals[i]].state # "shown"
  /\ \A i, j \in 1..Len(signals) : signals[i] = signals[j] /\ signals[i] # 0 => i = j
  /\ Counts => \A k \in 1..Len(prompts) : Open(k) => pc = "prompt" /\ k = Len(prompts)

\* The connection and what the probe concludes from it.
BusInv ==
  /\ conn # "none" => Dialled
  /\ pc \notin {"dial", "returned"} => conn # "none"
  /\ pc = "returned" => conn \in {"none", "closed"}
  /\ res = "nobus" => \A e \in addr : ~e.listens
  /\ op = "probe" /\ res = "ok" => owner /\ conn # "none"

IInv == TypeOK /\ CallInv /\ DoneInv /\ SignalInv /\ BusInv

-----------------------------------------------------------------------------
(* Scripts, and the signals that remain *)

\* All of a script's calls but the first are made for what they may achieve
\* (Save collapses duplicates, sets attributes and label).
LEMMA OnlyFirstCounts ==
  ASSUME NEW o \in Op, NEW s \in Scripts(o) \cup {<<>>}
  PROVE  /\ s \in Seq(BestEffort \cup Retried)
         /\ \A i \in 1..Len(s) : i > 1 => s[i] \in BestEffort
<1>1. s \in {<<>>, <<"read">>, <<"create">>, <<"delete">>, <<"set", "attributes", "label">>,
             <<"set", "attributes", "label", "dup1", "dup2">>}
  BY DEF Op, Scripts
<1>2. CASE s = <<>>
  BY <1>2
<1>3. CASE s = <<"read">>
  BY <1>3 DEF Retried
<1>4. CASE s = <<"create">>
  BY <1>4 DEF Retried
<1>5. CASE s = <<"delete">>
  BY <1>5 DEF Retried
<1>6. CASE s = <<"set", "attributes", "label">>
  BY <1>6 DEF Retried, BestEffort
<1>7. CASE s = <<"set", "attributes", "label", "dup1", "dup2">>
  BY <1>7 DEF Retried, BestEffort
<1> QED
  BY <1>1, <1>2, <1>3, <1>4, <1>5, <1>6, <1>7

\* The signals stay, or the first one is taken.
Taken == signals' = signals \/ (signals # <<>> /\ signals' = Tail(signals))

\* What is left of the signals is part of what there was, in its order.
LEMMA TakenSignals ==
  ASSUME IInv, Taken, UNCHANGED prompts
  PROVE  /\ signals' \in Seq(0..Len(prompts'))
         /\ \A k : Open(k)' => Open(k)
         /\ \A i \in 1..Len(signals') : signals'[i] # 0 => prompts'[signals'[i]].state # "shown"
         /\ \A i, j \in 1..Len(signals') :
              signals'[i] = signals'[j] /\ signals'[i] # 0 => i = j
<1> signals \in Seq(0..Len(prompts))
  BY DEF IInv, TypeOK
<1>1. CASE signals' = signals
  BY <1>1 DEF IInv, SignalInv, Open
<1>2. CASE signals # <<>> /\ signals' = Tail(signals)
  <2>1. /\ signals' \in Seq(0..Len(prompts))
        /\ Len(signals') = Len(signals) - 1
        /\ \A i \in 1..Len(signals') : signals'[i] = signals[i + 1] /\ i + 1 \in 1..Len(signals)
    BY <1>2
  <2>2. \A k : Open(k)' => Open(k)
    BY <2>1 DEF Open
  <2>3. \A i \in 1..Len(signals') : signals'[i] # 0 => prompts'[signals'[i]].state # "shown"
    BY <2>1 DEF IInv, SignalInv
  <2>4. \A i, j \in 1..Len(signals') : signals'[i] = signals'[j] /\ signals'[i] # 0 => i = j
    <3> SUFFICES ASSUME NEW i \in 1..Len(signals'), NEW j \in 1..Len(signals'),
                        signals'[i] = signals'[j], signals'[i] # 0
                 PROVE  i = j
      OBVIOUS
    <3>1. i + 1 = j + 1
      BY <2>1 DEF IInv, SignalInv
    <3> QED
      BY <3>1
  <2> QED
    BY <2>1, <2>2, <2>3, <2>4
<1> QED
  BY <1>1, <1>2 DEF Taken

-----------------------------------------------------------------------------
(* The ways a call ends *)

\* What every step of the operation itself leaves alone.
Rest == UNCHANGED <<addr, owner, op, opener, script, relocks>>

\* A call has succeeded, or its outcome does not count: the next one's does not
\* count either, and what is behind the operation is done.
LEMMA AdvanceKeeps ==
  ASSUME IInv, Rest, Advance, Taken, UNCHANGED <<conn, prompts>>,
         pc \notin {"dial", "close", "returned"}, op # "probe", at \in 1..Len(script),
         locked' \in BOOLEAN, done \subseteq done', done' \subseteq BestEffort \cup Retried,
         script[at] \notin BestEffort => script[at] \in done', MaxRetries \in Nat
  PROVE  IInv'
<1> USE DEF Rest
<1>0. /\ script \in Seq(BestEffort \cup Retried)
      /\ \A i \in 1..Len(script) : i > 1 => script[i] \in BestEffort
  BY OnlyFirstCounts DEF IInv, TypeOK
<1>1. /\ at' = at + 1 /\ tries' = 0 /\ after' = "none"
      /\ \/ at < Len(script) /\ pc' = "work" /\ res' = res
         \/ at = Len(script) /\ pc' = "close" /\ res' = "ok"
  BY <1>0 DEF Advance
<1>2. TypeOK'
  BY <1>0, <1>1, TakenSignals DEF IInv, TypeOK
<1>3. CallInv'
  BY <1>0, <1>1 DEF IInv, CallInv, Waiting, TypeOK
<1>4. DoneInv'
  BY <1>0, <1>1 DEF IInv, DoneInv, TypeOK
<1>5. ~Counts'
  BY <1>0, <1>1 DEF Counts
<1>6. SignalInv'
  BY <1>5, TakenSignals DEF SignalInv
<1>7. BusInv'
  BY <1>1 DEF IInv, BusInv, CallInv, Dialled
<1> QED
  BY <1>2, <1>3, <1>4, <1>6, <1>7 DEF IInv

\* The operation ends with an error.
LEMMA ReturnKeeps ==
  ASSUME IInv, Rest, Return("error"), Taken, UNCHANGED <<conn, prompts, locked, at, tries, done>>,
         pc \notin {"dial", "returned"}
  PROVE  IInv'
<1> USE DEF Rest
<1>1. TypeOK'
  BY TakenSignals DEF IInv, TypeOK, Return
<1>2. CallInv' /\ DoneInv'
  BY DEF IInv, CallInv, DoneInv, Return, Waiting
<1>3. SignalInv'
  BY TakenSignals DEF SignalInv, Counts, Return
<1>4. BusInv'
  BY DEF IInv, BusInv, Return, Dialled
<1> QED
  BY <1>1, <1>2, <1>3, <1>4 DEF IInv

\* withRelockRetry returns an error that is not "locked".
LEMMA GiveUpKeeps ==
  ASSUME IInv, Rest, GiveUp, Taken, UNCHANGED <<conn, prompts, locked, done>>,
         pc \in {"work", "reunlock"} \/ Waiting({"retry", "work"}), MaxRetries \in Nat
  PROVE  IInv'
<1>1. op # "probe" /\ at \in 1..Len(script) /\ pc \notin {"dial", "close", "returned"}
  BY DEF IInv, CallInv, Waiting
<1>2. CASE script[at] \in BestEffort
  <2>1. Advance
    BY <1>2 DEF GiveUp
  <2> QED
    BY <1>1, <1>2, <2>1, AdvanceKeeps DEF IInv, TypeOK
<1>3. CASE script[at] \notin BestEffort
  BY <1>1, <1>3, ReturnKeeps DEF GiveUp
<1> QED
  BY <1>2, <1>3

-----------------------------------------------------------------------------
(* The initial states and the steps *)

\* The invariant holds before the connection is dialled.
LEMMA InitHolds ==
  ASSUME ServiceAssumption, Init
  PROVE  IInv
<1>1. TypeOK
  <2>1. addr \subseteq Endpoint
    <3>1. CASE op = "probe"
      BY <3>1 DEF Init
    <3>2. CASE op # "probe"
      <4>1. [path |-> TRUE, exists |-> TRUE, listens |-> TRUE] \in Endpoint
        BY DEF Endpoint
      <4> QED
        BY <3>2, <4>1 DEF Init
    <3> QED
      BY <3>1, <3>2
  <2> QED
    BY <2>1 DEF Init, TypeOK, ServiceAssumption
<1>2. CallInv /\ DoneInv /\ SignalInv /\ BusInv
  BY DEF Init, CallInv, DoneInv, SignalInv, BusInv, Counts, Open, Waiting, Op
<1> QED
  BY <1>1, <1>2 DEF IInv

\* Dialling: nothing is prompted for, and a signal that waits already is none
\* of a prompt.
LEMMA DialKeeps ==
  ASSUME IInv, NewServiceFails \/ NewService
  PROVE  IInv'
<1>1. CASE NewServiceFails
  <2>1. TypeOK' /\ DoneInv'
    BY <1>1 DEF IInv, TypeOK, DoneInv, NewServiceFails
  <2>2. CallInv'
    BY <1>1 DEF IInv, CallInv, NewServiceFails, Waiting
  <2>3. SignalInv'
    BY <1>1 DEF IInv, SignalInv, NewServiceFails, Counts, Open
  <2>4. BusInv'
    <3>1. sessionBusMissingSocket \/ ~Dialled \/ addr = {} => \A e \in addr : ~e.listens
      BY DEF IInv, TypeOK, Dialled, sessionBusMissingSocket, unixSocketPath, Endpoint
    <3> QED
      BY <1>1, <3>1 DEF IInv, BusInv, NewServiceFails, Dialled
  <2> QED
    BY <2>1, <2>2, <2>3, <2>4 DEF IInv
<1>2. CASE NewService
  <2>0. /\ signals' \in Seq(0..Len(prompts'))
        /\ \A i \in 1..Len(signals') : i = 1 /\ signals'[i] = 0
    <3>1. Len(prompts) \in Nat /\ prompts' = prompts
      BY <1>2 DEF NewService, IInv, TypeOK
    <3>2. CASE signals' = <<>>
      BY <3>1, <3>2
    <3>3. CASE signals' = <<0>>
      BY <3>1, <3>3
    <3> QED
      BY <1>2, <3>2, <3>3 DEF NewService
  <2>1. TypeOK' /\ DoneInv'
    BY <1>2, <2>0 DEF IInv, TypeOK, DoneInv, NewService
  <2>2. CallInv'
    BY <1>2 DEF IInv, CallInv, NewService, Waiting
  <2>3. Counts => \A k \in 1..Len(prompts) : ~Open(k)
    BY <1>2 DEF NewService, IInv, SignalInv
  <2>4. SignalInv'
    BY <1>2, <2>0, <2>3 DEF IInv, SignalInv, NewService, Counts, Open, CallInv
  <2>5. BusInv'
    BY <1>2 DEF IInv, BusInv, CallInv, NewService, Dialled, sessionBusMissingSocket
  <2> QED
    BY <2>1, <2>2, <2>4, <2>5 DEF IInv
<1> QED
  BY <1>1, <1>2

\* The steps before the operation's work: none makes a prompt.
LEMMA PrepareKeeps ==
  ASSUME ServiceAssumption, IInv,
         Available \/ OpenSessionRaw \/ OpenSession \/ OpenSessionTimesOut \/ IsLocked
  PROVE  IInv'
<1>1. CASE Available
  <2>1. CASE conn = "open" /\ owner /\ Return("ok")
    <3>1. TypeOK' /\ DoneInv'
      BY <1>1, <2>1 DEF IInv, TypeOK, DoneInv, Available, Return
    <3>2. CallInv'
      BY <1>1, <2>1 DEF IInv, CallInv, Available, Return, Waiting
    <3>3. SignalInv'
      BY <1>1, <2>1 DEF IInv, SignalInv, Available, Return, Counts
    <3>4. BusInv'
      BY <1>1, <2>1 DEF IInv, BusInv, Available, Return, Dialled
    <3> QED
      BY <3>1, <3>2, <3>3, <3>4 DEF IInv
  <2>2. CASE Return("error")
    BY <1>1, <2>2, ReturnKeeps DEF Available, Rest, Taken
  <2> QED
    BY <1>1, <2>1, <2>2 DEF Available
<1>2. CASE OpenSessionRaw
  BY <1>2 DEF IInv, TypeOK, CallInv, DoneInv, SignalInv, BusInv, OpenSessionRaw, Waiting,
              Counts, Open, Dialled
<1>3. CASE OpenSession
  <2>1. TypeOK'
    BY <1>3 DEF IInv, TypeOK, OpenSession, Return
  <2>2. CallInv' /\ DoneInv'
    BY <1>3 DEF IInv, CallInv, DoneInv, OpenSession, Return, Waiting
  <2>3. SignalInv'
    BY <1>3 DEF IInv, SignalInv, OpenSession, Return, Counts, Open
  <2>4. BusInv'
    BY <1>3 DEF IInv, BusInv, OpenSession, Return, Dialled
  <2> QED
    BY <2>1, <2>2, <2>3, <2>4 DEF IInv
<1>4. CASE OpenSessionTimesOut
  BY <1>4, ReturnKeeps DEF OpenSessionTimesOut, Rest, Taken
<1>5. CASE IsLocked
  <2>1. TypeOK'
    BY <1>5 DEF IInv, TypeOK, IsLocked
  <2>2. CallInv' /\ DoneInv'
    BY <1>5 DEF IInv, CallInv, DoneInv, IsLocked, Waiting
  <2>3. SignalInv'
    BY <1>5 DEF IInv, SignalInv, IsLocked, Counts, Open
  <2>4. BusInv'
    BY <1>5 DEF IInv, BusInv, IsLocked, Dialled
  <2> QED
    BY <2>1, <2>2, <2>3, <2>4 DEF IInv
<1> QED
  BY <1>1, <1>2, <1>3, <1>4, <1>5

\* A call that fails ends the operation or is ignored.
LEMMA FailureKeeps ==
  ASSUME ServiceAssumption, IInv, CallFails
  PROVE  IInv'
<1>1. CASE pc \in {"work", "reunlock"}
  BY <1>1, GiveUpKeeps DEF CallFails, Rest, Taken, ServiceAssumption
<1>2. CASE pc \notin {"work", "reunlock"}
  BY <1>2, ReturnKeeps DEF CallFails, Rest, Taken
<1> QED
  BY <1>1, <1>2

\* The search fixes the script; nothing of it is behind the operation.
LEMMA SearchKeeps ==
  ASSUME IInv, SearchCollection
  PROVE  IInv'
<1>1. PICK s \in Scripts(op) :
        /\ script' = s
        /\ \/ s = <<>> /\ pc' = "close" /\ res' = "ok"
           \/ s # <<>> /\ pc' = "work" /\ res' = res
  BY DEF SearchCollection
<1>2. s \in Seq(BestEffort \cup Retried)
  BY OnlyFirstCounts DEF IInv, TypeOK
<1>3. script = <<>> /\ at = 1 /\ at' = 1 /\ (s # <<>> => Len(s) >= 1)
  BY <1>2 DEF SearchCollection, IInv, CallInv
<1>4. TypeOK'
  BY <1>1, <1>2, <1>3 DEF SearchCollection, IInv, TypeOK
<1>5. CallInv' /\ DoneInv'
  BY <1>1, <1>2, <1>3 DEF SearchCollection, IInv, CallInv, DoneInv, Waiting
<1>6. SignalInv'
  BY <1>1, <1>3 DEF SearchCollection, IInv, SignalInv, Counts, Open
<1>7. BusInv'
  BY <1>1 DEF SearchCollection, IInv, BusInv, CallInv, Dialled
<1> QED
  BY <1>4, <1>5, <1>6, <1>7 DEF IInv

\* What an Unlock or a call may be prompted for, and where.
Asks(what, a) ==
  \/ what = "unlock" /\ pc = "unlock" /\ a = "first"
  \/ what = "unlock" /\ pc = "reunlock" /\ a = "retry"
  \/ what = script[at] /\ pc = "work" /\ a = "work" /\ what \in Prompting

\* The daemon asks with a prompt: as long as the outcome counts, it is the only
\* one that is open.
LEMMA PromptsKeeps ==
  ASSUME IInv, Rest, UNCHANGED <<conn, locked, at, tries, signals, done, res>>,
         NEW what, NEW a, Prompts(what, a), Asks(what, a)
  PROVE  IInv'
<1> USE DEF Rest, Asks
<1> DEFINE new == [for |-> what, state |-> "shown"]
<1>0. /\ prompts \in Seq([for : {"unlock"} \cup Prompting, state : {"shown", "done", "dismissed"}])
      /\ signals \in Seq(0..Len(prompts))
      /\ prompts' = Append(prompts, new) /\ pc' = "prompt" /\ after' = a
      /\ what \in {"unlock"} \cup Prompting
  BY DEF Prompts, IInv, TypeOK
<1>1. /\ prompts' \in Seq([for : {"unlock"} \cup Prompting, state : {"shown", "done", "dismissed"}])
      /\ Len(prompts') = Len(prompts) + 1
      /\ \A i \in 1..Len(prompts) : prompts'[i] = prompts[i]
      /\ prompts'[Len(prompts')] = new
  BY <1>0
<1>2. TypeOK'
  <2>1. signals' \in Seq(0..Len(prompts'))
    BY <1>0, <1>1
  <2> QED
    BY <1>0, <1>1, <2>1 DEF IInv, TypeOK
<1>3. CallInv'
  <2>1. prompts' # <<>> /\ prompts'[Len(prompts')].for = what
    BY <1>0, <1>1
  <2>2. CASE what = "unlock" /\ pc = "unlock" /\ a = "first"
    BY <1>0, <2>1, <2>2 DEF IInv, CallInv, Waiting
  <2>3. CASE what = "unlock" /\ pc = "reunlock" /\ a = "retry"
    BY <1>0, <2>1, <2>3 DEF IInv, CallInv, Waiting
  <2>4. CASE pc = "work" /\ a = "work" /\ what = script[at]
    BY <1>0, <2>1, <2>4 DEF IInv, CallInv, Waiting
  <2> QED
    BY <2>2, <2>3, <2>4
<1>4. DoneInv'
  <2> SUFFICES ASSUME NEW i \in 1..Len(prompts'), prompts'[i].state = "done",
                      prompts'[i].for # "unlock"
               PROVE  prompts'[i].for \in done
    BY DEF IInv, DoneInv
  <2>1. i # Len(prompts')
    BY <1>1
  <2> QED
    BY <1>0, <1>1, <2>1 DEF IInv, DoneInv
<1>5. SignalInv'
  <2>1. \A i \in 1..Len(signals) :
          signals[i] # 0 => signals[i] \in 1..Len(prompts)
    BY <1>0
  <2>2. \A i \in 1..Len(signals) : signals[i] # 0 => prompts'[signals[i]].state # "shown"
    BY <1>1, <2>1 DEF IInv, SignalInv
  <2>3. ASSUME Counts', NEW k \in 1..Len(prompts'), Open(k)', k # Len(prompts')
        PROVE  FALSE
    <3>1. Counts
      BY <2>3 DEF Counts
    <3>2. k \in 1..Len(prompts) /\ prompts'[k] = prompts[k]
      BY <1>0, <1>1, <2>3
    <3>3. Open(k)
      BY <2>3, <3>2 DEF Open
    <3> QED
      BY <3>1, <3>2, <3>3 DEF IInv, SignalInv
  <2> QED
    BY <1>0, <2>2, <2>3 DEF IInv, SignalInv
<1>6. BusInv'
  BY <1>0 DEF IInv, BusInv, Dialled
<1> QED
  BY <1>2, <1>3, <1>4, <1>5, <1>6 DEF IInv

\* Unlock, with or without a prompt; in withRelockRetry it is one of the retries.
LEMMA UnlockKeeps ==
  ASSUME ServiceAssumption, IInv, Unlock
  PROVE  IInv'
<1>1. CASE Prompts("unlock", IF pc = "unlock" THEN "first" ELSE "retry")
           /\ UNCHANGED <<locked, tries>>
  <2>1. Rest /\ UNCHANGED <<conn, locked, at, tries, signals, done, res>>
    BY <1>1 DEF Unlock, Rest
  <2>2. CASE pc = "unlock"
    <3>1. Prompts("unlock", "first") /\ Asks("unlock", "first")
      BY <1>1, <2>2 DEF Asks
    <3> QED
      BY <2>1, <3>1, PromptsKeeps
  <2>3. CASE pc = "reunlock"
    <3>1. Prompts("unlock", "retry") /\ Asks("unlock", "retry")
      BY <1>1, <2>3 DEF Asks
    <3> QED
      BY <2>1, <3>1, PromptsKeeps
  <2> QED
    BY <2>2, <2>3 DEF Unlock
<1>2. CASE /\ locked' = FALSE
           /\ IF pc = "unlock" THEN pc' = "search" /\ UNCHANGED tries
              ELSE pc' = "work" /\ tries' = tries + 1
           /\ UNCHANGED <<prompts, after>>
  <2>1. TypeOK'
    <3>1. tries' \in 0..MaxRetries
      BY <1>2 DEF IInv, TypeOK, CallInv, Unlock, ServiceAssumption
    <3> QED
      BY <1>2, <3>1 DEF IInv, TypeOK, Unlock
  <2>2. CallInv' /\ DoneInv'
    BY <1>2 DEF IInv, CallInv, DoneInv, Unlock, Waiting
  <2>3. SignalInv'
    BY <1>2 DEF IInv, SignalInv, Unlock, Counts, Open
  <2>4. BusInv'
    BY <1>2 DEF IInv, BusInv, Unlock, Dialled
  <2> QED
    BY <2>1, <2>2, <2>3, <2>4 DEF IInv
<1> QED
  BY <1>1, <1>2 DEF Unlock

\* A call of the script: done at once, prompted for, or it meets the lock.
LEMMA WorkKeeps ==
  ASSUME ServiceAssumption, IInv, Work \/ MeetsLock
  PROVE  IInv'
<1>0. at \in 1..Len(script) /\ op # "probe" /\ script[at] \in BestEffort \cup Retried
  BY OnlyFirstCounts DEF IInv, TypeOK, CallInv, Work, MeetsLock
<1>1. CASE Work /\ done' = done \cup {script[at]} /\ Advance /\ UNCHANGED prompts
  BY <1>0, <1>1, AdvanceKeeps DEF Work, Rest, Taken, IInv, TypeOK, ServiceAssumption
<1>2. CASE Work /\ script[at] \in Prompting /\ Prompts(script[at], "work")
           /\ UNCHANGED <<at, tries, done, res>>
  <2>1. Asks(script[at], "work")
    BY <1>2 DEF Work, Asks
  <2> QED
    BY <1>2, <2>1, PromptsKeeps DEF Work, Rest
<1>3. CASE MeetsLock /\ script[at] \in Retried /\ tries < MaxRetries
  <2>1. TypeOK'
    BY <1>3 DEF IInv, TypeOK, MeetsLock
  <2>2. CallInv' /\ DoneInv'
    BY <1>3 DEF IInv, CallInv, DoneInv, MeetsLock, Waiting
  <2>3. SignalInv'
    BY <1>3 DEF IInv, SignalInv, MeetsLock, Counts, Open
  <2>4. BusInv'
    BY <1>3 DEF IInv, BusInv, MeetsLock, Dialled
  <2> QED
    BY <2>1, <2>2, <2>3, <2>4 DEF IInv
<1>4. CASE MeetsLock /\ ~(script[at] \in Retried /\ tries < MaxRetries)
  BY <1>4, GiveUpKeeps DEF MeetsLock, Rest, Taken, ServiceAssumption
<1> QED
  BY <1>1, <1>2, <1>3, <1>4 DEF Work


-----------------------------------------------------------------------------
(* PromptAndWait, and the world *)

\* A Completed signal that is taken while the outcome counts is that of the
\* prompt that is waited for, and no other prompt is open after it.
LEMMA OwnSignal ==
  ASSUME IInv, pc = "prompt", signals # <<>>, Head(signals) # 0, Counts,
         signals' = Tail(signals), UNCHANGED prompts
  PROVE  /\ Head(signals) = Len(prompts)
         /\ \A k \in 1..Len(prompts) : ~Open(k)'
<1>1. /\ signals \in Seq(0..Len(prompts)) /\ Len(signals) >= 1 /\ Head(signals) = signals[1]
      /\ 1 \in 1..Len(signals) /\ signals[1] \in 1..Len(prompts)
  BY DEF IInv, TypeOK
<1>2. Open(signals[1])
  BY <1>1 DEF Open
<1>3. signals[1] = Len(prompts)
  BY <1>1, <1>2 DEF IInv, SignalInv
<1>4. ASSUME NEW k \in 1..Len(prompts), Open(k)'
      PROVE  FALSE
  <2>1. Open(k)
    BY <1>4, TakenSignals DEF Taken
  <2>2. k = signals[1]
    BY <1>3, <2>1 DEF IInv, SignalInv
  <2>3. prompts[k].state # "shown"
    BY <1>1, <2>2 DEF IInv, SignalInv
  <2>4. PICK i \in 1..Len(signals') : signals'[i] = k
    BY <1>4, <2>3 DEF Open
  <2>5. i + 1 \in 1..Len(signals) /\ signals[i + 1] = signals[1]
    BY <1>1, <2>2, <2>4
  <2>6. i + 1 = 1
    BY <1>1, <2>5 DEF IInv, SignalInv
  <2> QED
    BY <2>6
<1> QED
  BY <1>1, <1>3, <1>4

\* An error of PromptAndWait.
LEMMA PromptFailedKeeps ==
  ASSUME ServiceAssumption, IInv, Rest, PromptFailed, Taken, pc = "prompt",
         UNCHANGED <<conn, prompts, locked, done>>
  PROVE  IInv'
<1>1. CASE after = "first"
  BY <1>1, ReturnKeeps DEF PromptFailed
<1>2. CASE after # "first"
  <2>1. Waiting({"retry", "work"})
    BY <1>2 DEF IInv, CallInv, Waiting
  <2> QED
    BY <1>2, <2>1, GiveUpKeeps DEF PromptFailed, ServiceAssumption
<1> QED
  BY <1>1, <1>2

\* A confirmed prompt: what it was for has happened, if that counts.
LEMMA PromptAnsweredKeeps ==
  ASSUME ServiceAssumption, IInv, Rest, PromptAnswered, pc = "prompt",
         signals # <<>>, Head(signals) # 0, prompts[Head(signals)].state = "done",
         signals' = Tail(signals), UNCHANGED <<conn, prompts, locked, done>>
  PROVE  IInv'
<1>0. Taken /\ op # "probe" /\ after \in {"first", "retry", "work"}
  BY DEF Taken, IInv, CallInv
<1>1. CASE after = "work"
  <2>1. at \in 1..Len(script) /\ Advance
    BY <1>1 DEF IInv, CallInv, Waiting, PromptAnswered
  <2>2. ASSUME script[at] \notin BestEffort
        PROVE  script[at] \in done
    <3>1. Head(signals) = Len(prompts)
      BY <2>2, OwnSignal DEF Counts
    <3>2. Len(prompts) \in 1..Len(prompts) /\ prompts[Len(prompts)].for = script[at]
      BY <1>1 DEF IInv, CallInv, TypeOK
    <3>3. script[at] # "unlock"
      <4>1. script[at] \in BestEffort \cup Retried
        BY <2>1, OnlyFirstCounts DEF IInv, TypeOK
      <4> QED
        BY <4>1 DEF BestEffort, Retried
    <3> QED
      BY <3>1, <3>2, <3>3 DEF IInv, DoneInv
  <2> QED
    BY <1>0, <2>1, <2>2, AdvanceKeeps DEF IInv, TypeOK, ServiceAssumption
<1>2. CASE after # "work"
  <2>1. /\ after' = "none" /\ at' = at /\ res' = res
        /\ \/ after = "first" /\ pc' = "search" /\ tries' = tries
           \/ after = "retry" /\ pc' = "work" /\ tries' = tries + 1
    BY <1>0, <1>2 DEF PromptAnswered
  <2> USE DEF Rest
  <2>2. TypeOK'
    <3>1. tries' \in 0..MaxRetries
      BY <1>0, <2>1, SMTT(30) DEF IInv, TypeOK, CallInv, Waiting, ServiceAssumption
    <3> QED
      BY <1>0, <2>1, <3>1, TakenSignals DEF IInv, TypeOK
  <2>3. CallInv' /\ DoneInv'
    BY <1>0, <2>1 DEF IInv, CallInv, DoneInv, Waiting
  <2>4. SignalInv'
    <3>1. CASE Counts
      BY <1>0, <2>1, <3>1, OwnSignal, TakenSignals DEF SignalInv
    <3>2. CASE ~Counts
      <4>1. ~Counts'
        BY <2>1, <3>2 DEF Counts
      <4> QED
        BY <1>0, <4>1, TakenSignals DEF SignalInv
    <3> QED
      BY <3>1, <3>2
  <2>5. BusInv'
    BY <2>1 DEF IInv, BusInv, Dialled
  <2> QED
    BY <2>2, <2>3, <2>4, <2>5 DEF IInv
<1> QED
  BY <1>1, <1>2

\* A signal, whoever it is for, or the end of the wait for one, keeps the invariant.
LEMMA ReceiveKeeps ==
  ASSUME ServiceAssumption, IInv, ReceiveSignal \/ PromptTimesOut
  PROVE  IInv'
<1>1. CASE PromptTimesOut
  BY <1>1, PromptFailedKeeps DEF PromptTimesOut, Rest, Taken
<1>2. CASE ReceiveSignal
  <2>0. Rest /\ Taken /\ UNCHANGED <<conn, prompts, locked, done>> /\ signals' = Tail(signals)
    BY <1>2 DEF ReceiveSignal, Rest, Taken
  <2>1. CASE Head(signals) = 0
    <3> USE DEF Rest
    <3>1. UNCHANGED <<pc, at, tries, after, res>>
      BY <1>2, <2>1 DEF ReceiveSignal
    <3>2. TypeOK'
      BY <2>0, <3>1, TakenSignals DEF IInv, TypeOK
    <3>3. CallInv' /\ DoneInv'
      BY <2>0, <3>1 DEF IInv, CallInv, DoneInv, Waiting
    <3>4. Counts' => Counts
      BY <2>0, <3>1 DEF Counts
    <3>5. SignalInv'
      BY <2>0, <3>1, <3>4, TakenSignals DEF IInv, SignalInv
    <3>6. BusInv'
      BY <2>0, <3>1 DEF IInv, BusInv, Dialled
    <3> QED
      BY <3>2, <3>3, <3>5, <3>6 DEF IInv
  <2>2. CASE Head(signals) # 0 /\ prompts[Head(signals)].state = "done"
    BY <1>2, <2>0, <2>2, PromptAnsweredKeeps DEF ReceiveSignal
  <2>3. CASE Head(signals) # 0 /\ prompts[Head(signals)].state # "done"
    BY <1>2, <2>0, <2>3, PromptFailedKeeps DEF ReceiveSignal
  <2> QED
    BY <2>1, <2>2, <2>3
<1> QED
  BY <1>1, <1>2

\* The connection is closed or lost, or the collection locked.
LEMMA ConnectionKeeps ==
  ASSUME ServiceAssumption, IInv, Close \/ Relock \/ ConnLost
  PROVE  IInv'
<1>1. CASE Close
  <2>1. TypeOK' /\ DoneInv'
    BY <1>1 DEF IInv, TypeOK, DoneInv, Close
  <2>2. CallInv'
    BY <1>1 DEF IInv, CallInv, Close, Waiting
  <2>3. SignalInv' /\ BusInv'
    BY <1>1 DEF IInv, SignalInv, BusInv, Close, Counts, Dialled
  <2> QED
    BY <2>1, <2>2, <2>3 DEF IInv
<1>2. CASE Relock \/ ConnLost
  <2>1. TypeOK'
    <3>1. relocks' \in 0..MaxRelocks
      BY <1>2 DEF IInv, TypeOK, Relock, ConnLost, ServiceAssumption
    <3>2. TypeOK
      BY DEF IInv
    <3>3. CASE Relock
      BY <3>1, <3>2, <3>3 DEF TypeOK, Relock
    <3>4. CASE ConnLost
      BY <3>1, <3>2, <3>4 DEF TypeOK, ConnLost
    <3> QED
      BY <1>2, <3>3, <3>4
  <2>2. CallInv' /\ DoneInv'
    BY <1>2 DEF IInv, CallInv, DoneInv, Relock, ConnLost, Waiting
  <2>3. SignalInv'
    BY <1>2 DEF IInv, SignalInv, Relock, ConnLost, Counts, Open
  <2>4. BusInv'
    BY <1>2 DEF IInv, BusInv, Relock, ConnLost, Dialled
  <2> QED
    BY <2>1, <2>2, <2>3, <2>4 DEF IInv
<1> QED
  BY <1>1, <1>2

\* The user answers, however late: an answered prompt stays what it was, open
\* only until its signal is taken.
LEMMA AnswerKeeps ==
  ASSUME IInv, NEW k \in 1..Len(prompts), Answer(k)
  PROVE  IInv'
<1> DEFINE Prompt == [for : {"unlock"} \cup Prompting, state : {"shown", "done", "dismissed"}]
<1>0. prompts \in Seq(Prompt) /\ signals \in Seq(0..Len(prompts)) /\ prompts[k].state = "shown"
  BY DEF IInv, TypeOK, Answer
<1>1. PICK st \in {"done", "dismissed"} :
        /\ prompts' = [prompts EXCEPT ![k].state = st]
        /\ done' = IF st = "done" /\ prompts[k].for # "unlock" THEN done \cup {prompts[k].for}
                   ELSE done
        /\ locked' = (locked /\ ~(st = "done" /\ prompts[k].for = "unlock"))
  BY DEF Answer
<1>2. /\ prompts' \in Seq(Prompt) /\ Len(prompts') = Len(prompts)
      /\ \A i \in 1..Len(prompts) : prompts'[i].for = prompts[i].for
      /\ \A i \in 1..Len(prompts) : i # k => prompts'[i] = prompts[i]
      /\ prompts'[k].state = st
  <2>0. prompts[k] \in Prompt
    BY <1>0, ElementOfSeq
  <2>1. [prompts[k] EXCEPT !.state = st] \in Prompt
    BY <2>0
  <2> HIDE DEF Prompt
  <2>2. /\ prompts' \in Seq(Prompt) /\ Len(prompts') = Len(prompts)
        /\ \A i \in 1..Len(prompts) :
             prompts'[i] = IF i = k THEN [prompts[k] EXCEPT !.state = st] ELSE prompts[i]
    BY <1>0, <1>1, <2>1, ExceptSeq
  <2>3. /\ [prompts[k] EXCEPT !.state = st].for = prompts[k].for
        /\ [prompts[k] EXCEPT !.state = st].state = st
    BY <2>0 DEF Prompt
  <2> QED
    BY <2>2, <2>3
<1>3. UNCHANGED <<addr, owner, op, pc, conn, opener, script, at, tries, after, res, relocks>>
  BY DEF Answer
<1>4. /\ signals' \in Seq(0..Len(prompts'))
      /\ \/ signals' = signals
         \/ /\ signals' = Append(signals, k) /\ Len(signals') = Len(signals) + 1
            /\ signals'[Len(signals')] = k
            /\ \A i \in 1..Len(signals) : signals'[i] = signals[i]
  <2>1. CASE signals' = signals
    BY <1>0, <1>2, <2>1
  <2>2. CASE signals' = Append(signals, k)
    <3>1. k \in 0..Len(prompts)
      OBVIOUS
    <3> QED
      BY <1>0, <1>2, <2>2, <3>1, AppendProperties
  <2> QED
    BY <2>1, <2>2 DEF Answer
<1>5. \A i \in 1..Len(signals) : signals[i] # k
  BY <1>0 DEF IInv, SignalInv
<1>6. TypeOK'
  <2>1. done' \subseteq BestEffort \cup Retried
    <3>1. prompts[k].for \in {"unlock"} \cup Prompting
      <4>1. prompts[k] \in Prompt
        BY <1>0, ElementOfSeq
      <4> QED
        BY <4>1
    <3> QED
      BY <1>1, <3>1 DEF IInv, TypeOK, Prompting, Retried
  <2>2. locked' \in BOOLEAN
    BY <1>1
  <2> QED
    BY <1>2, <1>3, <1>4, <2>1, <2>2 DEF IInv, TypeOK
<1>7. CallInv'
  <2>1. pc = "prompt" => prompts' # <<>> /\ prompts'[Len(prompts')].for = prompts[Len(prompts)].for
    BY <1>0, <1>2
  <2> QED
    BY <1>3, <2>1 DEF IInv, CallInv, Waiting
<1>8. DoneInv'
  <2>1. done \subseteq done'
    BY <1>1
  <2>2. ASSUME NEW i \in 1..Len(prompts'), prompts'[i].state = "done", prompts'[i].for # "unlock"
        PROVE  prompts'[i].for \in done'
    <3>1. CASE i = k
      BY <1>1, <1>2, <2>2, <3>1
    <3>2. CASE i # k
      BY <1>2, <2>1, <2>2, <3>2 DEF IInv, DoneInv
    <3> QED
      BY <3>1, <3>2
  <2> QED
    BY <1>3, <2>1, <2>2 DEF IInv, DoneInv
<1>9. SignalInv'
  <2>1. ASSUME NEW i \in 1..Len(signals'), signals'[i] # 0
        PROVE  prompts'[signals'[i]].state # "shown"
    <3>1. signals'[i] = k \/ (i \in 1..Len(signals) /\ signals'[i] = signals[i])
      <4>1. CASE signals' = signals
        BY <4>1
      <4>2. CASE signals' # signals /\ i = Len(signals')
        BY <1>4, <4>2
      <4>3. CASE signals' # signals /\ i # Len(signals')
        <5>1. i \in 1..Len(signals)
          BY <1>0, <1>4, <4>3
        <5> QED
          BY <1>4, <4>3, <5>1
      <4> QED
        BY <4>1, <4>2, <4>3
    <3>2. CASE signals'[i] = k
      BY <1>2, <3>2
    <3>3. CASE i \in 1..Len(signals) /\ signals'[i] = signals[i]
      <4>1. signals[i] \in 1..Len(prompts) /\ signals[i] # k
        BY <1>0, <1>5, <2>1, <3>3
      <4> QED
        BY <1>2, <2>1, <3>3, <4>1 DEF IInv, SignalInv
    <3> QED
      BY <3>1, <3>2, <3>3
  <2>2. ASSUME NEW i \in 1..Len(signals'), NEW j \in 1..Len(signals'),
               signals'[i] = signals'[j], signals'[i] # 0
        PROVE  i = j
    <3>1. CASE signals' = signals
      BY <2>2, <3>1 DEF IInv, SignalInv
    <3>2. CASE signals' # signals
      <4>1. \A n \in 1..Len(signals') :
              n = Len(signals') \/ (n \in 1..Len(signals) /\ signals'[n] = signals[n])
        <5>1. Len(signals') = Len(signals) + 1 /\ Len(signals) \in Nat
          BY <1>0, <1>4, <3>2
        <5>2. ASSUME NEW n \in 1..Len(signals'), n # Len(signals')
              PROVE  n \in 1..Len(signals)
          BY <5>1, <5>2
        <5> QED
          BY <1>4, <3>2, <5>2
      <4> QED
        BY <1>4, <1>5, <2>2, <3>2, <4>1 DEF IInv, SignalInv
    <3> QED
      BY <3>1, <3>2
  <2>3. ASSUME Counts', NEW n \in 1..Len(prompts'), Open(n)'
        PROVE  pc' = "prompt" /\ n = Len(prompts')
    <3>1. Counts
      BY <1>3, <2>3 DEF Counts
    <3>2. Open(n)
      <4>1. CASE n = k
        BY <1>0, <4>1 DEF Open
      <4>2. CASE n # k
        BY <1>0, <1>2, <1>4, <2>3, <4>2, SMTT(30) DEF Open
      <4> QED
        BY <4>1, <4>2
    <3> QED
      BY <1>2, <1>3, <3>1, <3>2 DEF IInv, SignalInv
  <2> QED
    BY <2>1, <2>2, <2>3 DEF SignalInv
<1>10. BusInv'
  BY <1>3 DEF IInv, BusInv, Dialled
<1> QED
  BY <1>6, <1>7, <1>8, <1>9, <1>10 DEF IInv

-----------------------------------------------------------------------------
(* The theorems *)

\* The invariant holds in every behaviour of the connection.
LEMMA ServiceInvariant == ASSUME ServiceAssumption PROVE Spec => []IInv
<1>1. Init => IInv
  BY InitHolds
<1>2. IInv /\ [Next]_vars => IInv'
  <2> SUFFICES ASSUME IInv, [Next]_vars PROVE IInv'
    OBVIOUS
  <2>1. CASE NewServiceFails \/ NewService
    BY <2>1, DialKeeps
  <2>2. CASE Available \/ OpenSessionRaw \/ OpenSession \/ OpenSessionTimesOut \/ IsLocked
    BY <2>2, PrepareKeeps
  <2>3. CASE CallFails
    BY <2>3, FailureKeeps
  <2>4. CASE SearchCollection
    BY <2>4, SearchKeeps
  <2>5. CASE Unlock
    BY <2>5, UnlockKeeps
  <2>6. CASE Work \/ MeetsLock
    BY <2>6, WorkKeeps
  <2>7. CASE ReceiveSignal \/ PromptTimesOut
    BY <2>7, ReceiveKeeps
  <2>8. CASE Close \/ Relock \/ ConnLost
    BY <2>8, ConnectionKeeps
  <2>9. CASE \E i \in 1..Len(prompts) : Answer(i)
    BY <2>9, AnswerKeeps
  <2>10. CASE UNCHANGED vars
    BY <2>10 DEF vars, IInv, TypeOK, CallInv, DoneInv, SignalInv, BusInv, Waiting, Counts, Open,
                 Dialled
  <2> QED
    BY <2>1, <2>2, <2>3, <2>4, <2>5, <2>6, <2>7, <2>8, <2>9, <2>10 DEF Next
<1> QED
  BY <1>1, <1>2, PTL DEF Spec

\* The types of the connection's state, for any limits (secretservice.go).
THEOREM ServiceTypes == ASSUME ServiceAssumption PROVE Spec => []TypeOK
<1>1. IInv => TypeOK
  BY DEF IInv
<1> QED
  BY <1>1, ServiceInvariant, PTL

\* An operation that reports success has done what it was called for, whatever
\* the user answers and when, and although PromptAndWait takes any Completed
\* signal for its own (PromptAndWait, withRelockRetry).
THEOREM SuccessIsDone == ASSUME ServiceAssumption PROVE Spec => []SuccessMeansDone
<1>1. IInv => SuccessMeansDone
  <2> SUFFICES ASSUME IInv, res = "ok", NEW i \in 1..Len(script), script[i] \notin BestEffort
               PROVE  script[i] \in done
    BY DEF SuccessMeansDone
  <2>1. Len(script) \in Nat
    BY OnlyFirstCounts DEF IInv, TypeOK
  <2>2. i < at
    BY <2>1 DEF IInv, CallInv
  <2> QED
    BY <2>2 DEF IInv, DoneInv
<1> QED
  BY <1>1, ServiceInvariant, PTL

\* The probe of New is right about the service and about the missing socket,
\* and every operation closes its connection (NewService, ensureAvailable).
THEOREM ProbesAreSound == ASSUME ServiceAssumption PROVE Spec => []ProbeIsSound
<1>1. IInv => ProbeIsSound
  BY DEF IInv, BusInv, ProbeIsSound
<1> QED
  BY <1>1, ServiceInvariant, PTL

==============================================================================
