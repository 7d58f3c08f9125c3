-------------------------- MODULE EcatSlaveProofs ---------------------------
(***************************************************************************)
(* Theorems about EcatSlave, for all requests, sizes and data.             *)
(***************************************************************************)
EXTENDS EcatSlave, TLAPS

\* Between PREOP and OP the outputs are open or the first start is still to
\* open them: what makes OutputsOpen inductive.
OutputsReady ==
  State = SAFEOP /\ nPdOutputSize > 0 /\ nPdInputSize > 0
    => bEcatLocalError \/ 2 \notin smOff

ServiceInv ==
  /\ RunningIffOp
  /\ TruthfulStatus
  /\ MailboxFollowsState
  /\ InputsFollowState
  /\ OutputsOpen
  /\ OutputsReady

IInv == TypeOK /\ ServiceInv

USE RequestAssumption, SizeAssumption, DataAssumption
USE DEF INIT, PREOP, SAFEOP, OP, States, ErrorBit, Answers, HasError,
        NoError, InvalidAlControl, UnknownAlControl

\* The low four bits of a reported status are a state, and the error bit is
\* all they leave out.
LEMMA LowOfAnswer ==
  ASSUME NEW x \in Answers
  PROVE  /\ Low(x) \in States
         /\ Low(x) \in Answers
         /\ Low(x) + ErrorBit \in Answers
         /\ Low(Low(x)) = Low(x)
         /\ Low(Low(x) + ErrorBit) = Low(x)
         /\ ~HasError(Low(x))
         /\ HasError(Low(x) + ErrorBit)
  BY DEF Low

\* A state is its own low bits.
LEMMA LowOfState ==
  ASSUME NEW s \in States
  PROVE  Low(s) = s /\ ~HasError(s)
  BY DEF Low

\* The acknowledge bit does not move the slave.
LEMMA CurrentStays ==
  ASSUME TypeOK
  PROVE  /\ Current \in Answers
         /\ Low(Current) = State
         /\ HasError(Current) => HasError(nAlStatus)
  BY LowOfAnswer DEF TypeOK, Current, State

\* The three answers leave the report registers well-typed and truthful.
LEMMA AcceptedKeeps ==
  ASSUME TypeOK, NEW s \in States, Accepted(s)
  PROVE  /\ alStatus' \in Answers /\ nAlStatus' \in Answers
         /\ nAlStatusFailed' \in Answers \union {0}
         /\ alCode' \in {NoError, InvalidAlControl, UnknownAlControl}
         /\ State' = s
         /\ TruthfulStatus'
  BY LowOfState DEF TypeOK, Accepted, State, TruthfulStatus

LEMMA RefusedKeeps ==
  ASSUME TypeOK, NEW code \in {InvalidAlControl, UnknownAlControl}, Refused(Current, code)
  PROVE  /\ alStatus' \in Answers /\ nAlStatus' \in Answers
         /\ nAlStatusFailed' \in Answers \union {0}
         /\ alCode' \in {NoError, InvalidAlControl, UnknownAlControl}
         /\ State' = State
         /\ TruthfulStatus'
  <1>1. Current \in Answers /\ Low(Current) = State
    BY CurrentStays
  <1>2. /\ Low(Current) + ErrorBit \in Answers
        /\ Low(Low(Current) + ErrorBit) = Low(Current)
    BY <1>1, LowOfAnswer
  <1> QED
    BY <1>1, <1>2 DEF TypeOK, Refused, State, TruthfulStatus

LEMMA RepeatedKeeps ==
  ASSUME TypeOK, TruthfulStatus, Repeated(Current)
  PROVE  /\ alStatus' \in Answers /\ nAlStatus' \in Answers
         /\ nAlStatusFailed' \in Answers \union {0}
         /\ alCode' \in {NoError, InvalidAlControl, UnknownAlControl}
         /\ State' = State
         /\ TruthfulStatus'
  <1>1. /\ Current \in Answers /\ Low(Current) = State
        /\ HasError(Current) => HasError(nAlStatus)
    BY CurrentStays
  <1> QED
    BY <1>1 DEF TypeOK, Repeated, State, TruthfulStatus

-----------------------------------------------------------------------------
LEMMA InitHolds == Init => IInv
  <1> SUFFICES ASSUME Init PROVE IInv
    OBVIOUS
  <1>1. /\ evControl \in BOOLEAN /\ evOutput \in BOOLEAN /\ EscAlEvent \in BOOLEAN
        /\ bEcatLocalError \in BOOLEAN /\ bEcatOutputUpdateRunning \in BOOLEAN
        /\ m_mbxrunning \in BOOLEAN /\ m_pdoinrun \in BOOLEAN
    BY Zenon DEF Init
  <1>2. TypeOK
    BY <1>1 DEF Init, TypeOK
  <1>3. ServiceInv
    BY DEF Init, ServiceInv, RunningIffOp, TruthfulStatus, MailboxFollowsState,
           InputsFollowState, OutputsOpen, OutputsReady, State, Low
  <1> QED
    BY <1>2, <1>3 DEF IInv

\* A step of the loop outside the state machine, or of the master, touches no
\* service and no status.
LEMMA QuietStep ==
  ASSUME IInv,
         \/ Poll \/ FreeRunOp \/ FreeRunZero \/ FreeRunIdle \/ PollAgain \/ ReadControl
         \/ NoControl \/ Master \/ UNCHANGED vars
  PROVE  IInv'
  <1>1. UNCHANGED <<report, services>>
    BY DEF Poll, FreeRunOp, FreeRunZero, FreeRunIdle, PollAgain, ReadControl, NoControl,
           Master, WriteControl, SendOutputs, vars
  <1>2. ServiceInv'
    BY <1>1 DEF IInv, ServiceInv, RunningIffOp, TruthfulStatus, MailboxFollowsState,
                InputsFollowState, OutputsOpen, OutputsReady, State, report, services,
                inputs, outputs
  <1>3. TypeOK'
    <2> USE <1>1 DEF IInv, TypeOK, report, services, inputs, outputs, app, events
    <2>1. CASE Poll
      BY <2>1 DEF Poll
    <2>2. CASE FreeRunOp
      <3>1. evOutput' \in BOOLEAN
        BY <2>2, Zenon DEF FreeRunOp, readoutputdata
      <3>2. aPdOutputData' \in Nat /\ dda' = aPdOutputData'
        BY <2>2 DEF FreeRunOp, readoutputdata
      <3>3. pc' = "al_event" /\ UNCHANGED <<alControl, evControl, EscAlEvent, request>>
        BY <2>2 DEF FreeRunOp
      <3> QED
        BY <3>1, <3>2, <3>3
    <2>3. CASE FreeRunZero
      BY <2>3 DEF FreeRunZero
    <2>4. CASE FreeRunIdle
      BY <2>4 DEF FreeRunIdle
    <2>5. CASE PollAgain
      BY <2>5 DEF PollAgain
    <2>6. CASE ReadControl
      <3>1. evControl' \in BOOLEAN
        BY <2>6, Zenon DEF ReadControl
      <3> QED
        BY <2>6, <3>1 DEF ReadControl
    <2>7. CASE NoControl
      BY <2>7 DEF NoControl
    <2>8. CASE Master
      <3>1. CASE WriteControl
        BY <3>1 DEF WriteControl
      <3>2. CASE SendOutputs
        BY <3>2 DEF SendOutputs
      <3> QED
        BY <2>8, <3>1, <3>2 DEF Master
    <2>9. CASE UNCHANGED vars
      BY <2>9 DEF vars
    <2> QED
      BY <2>1, <2>2, <2>3, <2>4, <2>5, <2>6, <2>7, <2>8, <2>9
  <1> QED
    BY <1>2, <1>3 DEF IInv

\* What pdo_stop assigns is Boolean.
LEMMA StopFlags ==
  ASSUME TypeOK, NEW channels, pdo_stop(channels)
  PROVE  /\ bEcatOutputUpdateRunning' \in BOOLEAN
         /\ m_pdoinrun' \in BOOLEAN
         /\ evOutput' \in BOOLEAN
  BY Zenon DEF TypeOK, pdo_stop

\* Every case of al_statemachine re-establishes what ties the services to the
\* state.
LEMMA TransitionStep ==
  ASSUME IInv, al_statemachine
  PROVE  IInv'
  <1> USE DEF IInv, ServiceInv, TypeOK, RunningIffOp, MailboxFollowsState, InputsFollowState,
              OutputsOpen, OutputsReady, Transition, Return, State
  <1> USE DEF inputs, outputs, app, services
  <1>1. CASE Ignore
    BY <1>1 DEF Ignore, report, TruthfulStatus
  <1>2. CASE InitToPreop
    BY <1>2, AcceptedKeeps DEF InitToPreop, mbx_startmailboxhandler
  <1>3. CASE PreopToSafeop
    <2>1. PICK out \in Sizes, in \in Sizes : pdo_startinputhandler(out, in)
      BY <1>3 DEF PreopToSafeop
    <2>2. /\ State' = SAFEOP /\ TruthfulStatus'
          /\ alStatus' \in Answers /\ nAlStatus' \in Answers
          /\ nAlStatusFailed' \in Answers \union {0}
          /\ alCode' \in {NoError, InvalidAlControl, UnknownAlControl}
      BY <1>3, AcceptedKeeps DEF PreopToSafeop
    <2>3. out \in Nat /\ in \in Nat /\ nPdOutputSize' = out /\ nPdInputSize' = in
      BY <2>1 DEF pdo_startinputhandler
    <2>4. /\ UNCHANGED <<alControl, evControl, evOutput, EscAlEvent, aPdOutputData, dda,
                         m_mbxrunning, bEcatLocalError, bEcatOutputUpdateRunning>>
          /\ request' = 0 /\ pc' = "poll" /\ Low(nAlStatus) = PREOP
      BY <1>3 DEF PreopToSafeop
    <2>5. CASE in = 0
      <3>1. UNCHANGED <<smOff, mask, m_pdoinrun>>
        BY <2>1, <2>5 DEF pdo_startinputhandler
      <3> QED
        BY <2>2, <2>3, <2>4, <2>5, <3>1
    <2>6. CASE in # 0
      <3>1. /\ smOff' = smOff \ ({3} \union (IF out > 0 /\ ~bEcatLocalError THEN {2} ELSE {}))
            /\ mask' = mask \union {IF out # 0 THEN "output" ELSE "input"}
            /\ m_pdoinrun'
        BY <2>1, <2>6 DEF pdo_startinputhandler
      <3>2. /\ smOff' \in SUBSET (0..3) /\ 3 \notin smOff'
            /\ smOff' \subseteq smOff
            /\ out > 0 => bEcatLocalError \/ 2 \notin smOff'
        BY <3>1
      <3>3. mask' \in SUBSET {"output", "input"} /\ mask' # {}
        BY <3>1
      <3> QED
        BY <2>2, <2>3, <2>4, <2>6, <3>1, <3>2, <3>3
    <2> QED
      BY <2>5, <2>6
  <1>4. CASE SafeopToOp
    BY <1>4, AcceptedKeeps DEF SafeopToOp, pdo_startoutputhandler
  <1>5. CASE OpToSafeop
    <2>1. bEcatOutputUpdateRunning' \in BOOLEAN
      BY <1>5, Zenon DEF OpToSafeop
    <2> QED
      BY <1>5, <2>1, AcceptedKeeps DEF OpToSafeop
  <1>6. CASE DownToPreop
    <2>1. /\ bEcatOutputUpdateRunning' \in BOOLEAN /\ m_pdoinrun' \in BOOLEAN
          /\ m_mbxrunning' \in BOOLEAN /\ evOutput' \in BOOLEAN
      BY <1>6, StopFlags DEF DownToPreop
    <2> QED
      BY <1>6, <2>1, AcceptedKeeps DEF DownToPreop, pdo_stop
  <1>7. CASE DownToInit
    <2>1. /\ bEcatOutputUpdateRunning' \in BOOLEAN /\ m_pdoinrun' \in BOOLEAN
          /\ m_mbxrunning' \in BOOLEAN /\ evOutput' \in BOOLEAN
      BY <1>7, StopFlags DEF DownToInit
    <2> QED
      BY <1>7, <2>1, AcceptedKeeps DEF DownToInit, pdo_stop
  <1>8. CASE Same
    BY <1>8, RepeatedKeeps DEF Same
  <1>9. CASE Invalid
    BY <1>9, RefusedKeeps DEF Invalid
  <1> QED
    BY <1>1, <1>2, <1>3, <1>4, <1>5, <1>6, <1>7, <1>8, <1>9 DEF al_statemachine

LEMMA IInvHolds == Spec => []IInv
  <1>1. IInv /\ [Next]_vars => IInv'
    BY QuietStep, TransitionStep DEF Next, Loop
  <1> QED
    BY <1>1, InitHolds, PTL DEF Spec

-----------------------------------------------------------------------------
\* The variables of the slave keep their types (main.c: the globals of the
\* state machine and the ESC registers it writes).
THEOREM TypeCorrect == Spec => []TypeOK
  BY IInvHolds, PTL DEF IInv

\* On every path in and out of OP, bEcatOutputUpdateRunning and the state agree.
THEOREM RunningExactlyInOp == Spec => []RunningIffOp
  BY IInvHolds, PTL DEF IInv, ServiceInv

\* What SetAlStatus has told the master is the state of the slave, and an error
\* never comes without its code.
THEOREM Truthful == Spec => []TruthfulStatus
  BY IInvHolds, PTL DEF IInv, ServiceInv

\* mbx_startmailboxhandler and mbx_stopmailboxhandler follow the state.
THEOREM MailboxTied == Spec => []MailboxFollowsState
  BY IInvHolds, PTL DEF IInv, ServiceInv

\* The input handlers follow the state, and so do the events they enable.
THEOREM InputsTied == Spec => []InputsFollowState
  BY IInvHolds, PTL DEF IInv, ServiceInv

\* On every path through the start and stop handlers the services are those of the state.
THEOREM ServicesTied == Spec => []ServicesFollowState
  BY IInvHolds, PTL DEF IInv, ServiceInv, ServicesFollowState

\* With inputs configured, the two places that open SM2 cover every way to OP.
THEOREM OutputsReach == Spec => []OutputsOpen
  BY IInvHolds, PTL DEF IInv, ServiceInv

\* free_run passes on something other than zero only in OP.
THEOREM MotionSafe == Spec => MotionOnlyInOp
  <1> DEFINE A == dda' # dda /\ dda' # 0 => State = OP /\ dda' = aPdOutputData'
  <1>1. IInv /\ [Next]_vars => [A]_vars
    <2> SUFFICES ASSUME IInv, Next PROVE A
      OBVIOUS
    <2>1. CASE FreeRunOp
      BY <2>1 DEF FreeRunOp, IInv, ServiceInv, RunningIffOp
    <2>2. CASE FreeRunZero
      BY <2>2 DEF FreeRunZero
    <2>3. CASE Poll \/ FreeRunIdle \/ PollAgain \/ ReadControl \/ NoControl \/ Master
      BY <2>3 DEF Poll, FreeRunIdle, PollAgain, ReadControl, NoControl, Master,
                  WriteControl, SendOutputs, app
    <2>4. CASE al_statemachine
      <3>1. UNCHANGED app
        BY <2>4 DEF al_statemachine, Ignore, InitToPreop, PreopToSafeop, SafeopToOp,
                    OpToSafeop, DownToPreop, DownToInit, Same, Invalid, Transition, Return
      <3> QED
        BY <3>1 DEF app
    <2> QED
      BY <2>1, <2>2, <2>3, <2>4 DEF Next, Loop
  <1> QED
    BY <1>1, IInvHolds, PTL DEF Spec, MotionOnlyInOp

\* al_statemachine climbs one rung at a time, to the state that was asked for,
\* and out of an error only when it was acknowledged.
THEOREM Ladder == Spec => ClimbsOnRequest
  <1> DEFINE A == State' > State =>
                    /\ <<State, State'>> \in {<<INIT, PREOP>>, <<PREOP, SAFEOP>>, <<SAFEOP, OP>>}
                    /\ Low(request) = State'
                    /\ HasError(nAlStatus) => Acknowledged
  <1>1. IInv /\ [Next]_vars => [A]_vars
    <2> SUFFICES ASSUME IInv, Next PROVE A
      OBVIOUS
    <2> USE DEF Transition
    <2>1. CASE Poll \/ FreeRunOp \/ FreeRunZero \/ FreeRunIdle \/ PollAgain \/ ReadControl
                 \/ NoControl \/ Master \/ Ignore
      <3>1. State' = State
        BY <2>1 DEF Poll, FreeRunOp, FreeRunZero, FreeRunIdle, PollAgain, ReadControl,
                    NoControl, Master, WriteControl, SendOutputs, Ignore, report, State
      <3>2. State \in States
        BY LowOfAnswer DEF IInv, TypeOK, State
      <3> QED
        BY <3>1, <3>2
    <2>2. CASE InitToPreop \/ PreopToSafeop \/ SafeopToOp
      <3>1. ASSUME NEW s \in States, Accepted(s), ~Blocked, Low(request) = s,
                   State < s => <<State, s>> \in
                     {<<INIT, PREOP>>, <<PREOP, SAFEOP>>, <<SAFEOP, OP>>}
            PROVE  A
        BY <3>1, AcceptedKeeps DEF IInv, Blocked, State
      <3>2. CASE InitToPreop
        BY <3>1, <3>2 DEF InitToPreop, State
      <3>3. CASE PreopToSafeop
        BY <3>1, <3>3 DEF PreopToSafeop, State
      <3>4. CASE SafeopToOp
        BY <3>1, <3>4 DEF SafeopToOp, State
      <3> QED
        BY <2>2, <3>2, <3>3, <3>4
    <2>3. CASE OpToSafeop \/ DownToPreop \/ DownToInit
      <3>1. ASSUME NEW s \in States, Accepted(s), s < State
            PROVE  A
        BY <3>1, AcceptedKeeps, LowOfAnswer DEF IInv, TypeOK, State
      <3>2. CASE OpToSafeop
        BY <3>1, <3>2 DEF OpToSafeop, State
      <3>3. CASE DownToPreop
        BY <3>1, <3>3 DEF DownToPreop, State
      <3>4. CASE DownToInit
        BY <3>1, <3>4 DEF DownToInit, State
      <3> QED
        BY <2>3, <3>2, <3>3, <3>4
    <2>4. CASE Same \/ Invalid
      <3>1. State' = State
        <4>1. CASE Same
          BY <4>1, RepeatedKeeps DEF Same, IInv, ServiceInv
        <4>2. CASE Invalid
          BY <4>2, RefusedKeeps DEF Invalid, IInv
        <4> QED
          BY <2>4, <4>1, <4>2
      <3>2. State \in States
        BY LowOfAnswer DEF IInv, TypeOK, State
      <3> QED
        BY <3>1, <3>2
    <2> QED
      BY <2>1, <2>2, <2>3, <2>4 DEF Next, Loop, al_statemachine
  <1> QED
    BY <1>1, IInvHolds, PTL DEF Spec, ClimbsOnRequest
=============================================================================
