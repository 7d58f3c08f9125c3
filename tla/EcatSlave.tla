----------------------------- MODULE EcatSlave ------------------------------
(***************************************************************************)
(* The EtherCAT slave stack of the Nios II, qsys/software/ssc-io/main.c:   *)
(* one polling loop (main) that reads the AL event register, passes the    *)
(* master's output data to the interpolator (free_run) and runs the        *)
(* application-layer state machine (al_event, al_statemachine).  The       *)
(* EtherCAT controller (ESC) and the master are external: the registers    *)
(* the loop reads over SPI change at any moment between two of its steps.  *)
(* What the master is free to rewrite at any time, the lengths of SM2 and  *)
(* SM3 and the bytes in SM2, is chosen when the program reads it.          *)
(*                                                                         *)
(* Application-layer states and requests are the numbers of the code: the  *)
(* low four bits are the state, bit 4 is the error or acknowledge bit.     *)
(*                                                                         *)
(* A definition whose name begins with Bug is a deliberate fault in the    *)
(* definition after it; no specification uses it.                          *)
(***************************************************************************)
EXTENDS Integers, FiniteSets

CONSTANTS
  Requests,   \* words the master may write to AL Control (0x0120)
  Sizes,      \* lengths it may give SM2 and SM3
  Data        \* output values it may send

ASSUME RequestAssumption == Requests \subseteq 0..31
ASSUME SizeAssumption == Sizes \subseteq Nat
ASSUME DataAssumption == Data \subseteq Nat

INIT == 1
PREOP == 2
SAFEOP == 4
OP == 8
States == {INIT, PREOP, SAFEOP, OP}

ErrorBit == 16
Low(x) == x % 16
HasError(x) == x >= ErrorBit

\* What nAlStatus may hold.
Answers == States \union {17, 18, 20, 24}

NoError == 0
InvalidAlControl == 17     \* 0x11
UnknownAlControl == 18     \* 0x12

VARIABLES
  \* ESC registers
  alControl,      \* 0x0120, written by the master
  alStatus,       \* 0x0130
  alCode,         \* 0x0134
  evControl,      \* 0x0220 bit 0: AL Control was written and not read yet
  evOutput,       \* 0x0220 bit 10: SM2 holds outputs that were not read yet
  mask,           \* 0x0204, the enabled process-data events
  smOff,          \* the sync managers whose PDI-disable bit is set
  \* globals of the program
  EscAlEvent,     \* the bit its next step tests of the last read of 0x0220
  nAlStatus, nAlStatusFailed,
  nPdOutputSize, nPdInputSize,
  bEcatLocalError, bEcatOutputUpdateRunning,
  m_mbxrunning, m_pdoinrun,
  aPdOutputData,
  dda,            \* the PIO that feeds the interpolator
  request,        \* the word al_event has read, 0 when it is dealt with
  pc

events == <<evControl, evOutput>>
report == <<alStatus, alCode, nAlStatus, nAlStatusFailed>>
inputs == <<mask, nPdOutputSize, nPdInputSize, m_pdoinrun>>
outputs == <<bEcatLocalError, bEcatOutputUpdateRunning>>
app == <<aPdOutputData, dda>>
services == <<m_mbxrunning, inputs, outputs, smOff>>
vars == <<alControl, events, EscAlEvent, report, services, app, request, pc>>

-----------------------------------------------------------------------------
(* SetAlStatus and the reply of al_statemachine.                           *)

\* A state change succeeded: the code register is cleared only when the new
\* state lies above the one in which the last error was noted.
Accepted(state) ==
  /\ nAlStatus' = state
  /\ alStatus' = state
  /\ IF state <= nAlStatusFailed
     THEN UNCHANGED <<alCode, nAlStatusFailed>>
     ELSE alCode' = NoError /\ nAlStatusFailed' = 0

BugRefusedSilently(s, code) ==
  /\ nAlStatusFailed' = s
  /\ nAlStatus' = Low(s) + ErrorBit
  /\ alStatus' = Low(s) + ErrorBit
  /\ alCode' = IF Low(s) <= nAlStatusFailed THEN alCode ELSE NoError

BugErrorBitAdded(s, code) ==
  /\ nAlStatusFailed' = s
  /\ nAlStatus' = s + ErrorBit
  /\ alStatus' = s + ErrorBit
  /\ alCode' = code

\* The request was refused in state s (with or without the error bit).
Refused(s, code) ==
  /\ nAlStatusFailed' = s
  /\ nAlStatus' = Low(s) + ErrorBit
  /\ alStatus' = Low(s) + ErrorBit
  /\ alCode' = code

\* The requested state is the present one.
Repeated(s) ==
  /\ nAlStatus' = s
  /\ alStatus' = s
  /\ UNCHANGED <<alCode, nAlStatusFailed>>

-----------------------------------------------------------------------------
(* The handlers that start and stop the services.                          *)

mbx_startmailboxhandler ==
  /\ smOff' = smOff \ {0, 1}
  /\ m_mbxrunning' = TRUE

BugOutputsNotReopened(out, in) ==
  /\ nPdOutputSize' = out
  /\ nPdInputSize' = in
  /\ IF in = 0
     THEN UNCHANGED <<smOff, mask, m_pdoinrun>>
     ELSE /\ smOff' = smOff \ {3}
          /\ mask' = mask \union {IF out # 0 THEN "output" ELSE "input"}
          /\ m_pdoinrun' = TRUE

\* SM2 is opened here on every start but the first, SM3 and the events only
\* when there are inputs.
pdo_startinputhandler(out, in) ==
  /\ nPdOutputSize' = out
  /\ nPdInputSize' = in
  /\ IF in = 0
     THEN UNCHANGED <<smOff, mask, m_pdoinrun>>
     ELSE /\ smOff' = smOff \ ({3} \union (IF out > 0 /\ ~bEcatLocalError THEN {2} ELSE {}))
          /\ mask' = mask \union {IF out # 0 THEN "output" ELSE "input"}
          /\ m_pdoinrun' = TRUE

\* SM2 is opened here on the first start.
pdo_startoutputhandler ==
  /\ smOff' = IF nPdOutputSize > 0 /\ bEcatLocalError THEN smOff \ {2} ELSE smOff
  /\ bEcatLocalError' = (bEcatLocalError /\ nPdOutputSize = 0)
  /\ bEcatOutputUpdateRunning' = TRUE

BugEventsStayEnabled(channels) ==
  /\ smOff' = smOff \union channels
  /\ mask' = mask \ {"output"}
  /\ m_pdoinrun' = FALSE
  /\ bEcatOutputUpdateRunning' = FALSE
  /\ evOutput' \in {evOutput, FALSE}

\* Stops inputs, outputs and, on the way to INIT, the mailbox.  Switching SM2
\* off may or may not make the ESC drop its event.
pdo_stop(channels) ==
  /\ smOff' = smOff \union channels
  /\ mask' = {}
  /\ m_pdoinrun' = FALSE
  /\ bEcatOutputUpdateRunning' = FALSE
  /\ evOutput' \in {evOutput, FALSE}

-----------------------------------------------------------------------------
(* al_statemachine(request), one action per case of its switch.            *)

Acknowledged == HasError(request)

\* nAlStatus after the acknowledge bit has been looked at.
Current == IF Acknowledged THEN Low(nAlStatus) ELSE nAlStatus

BugBlocksEveryRequest == ~Acknowledged /\ HasError(nAlStatus)

BugNeverBlocks == FALSE

\* In error and not acknowledged, a request towards OP is ignored.
Blocked == ~Acknowledged /\ HasError(nAlStatus) /\ Low(request) > Low(nAlStatus)

\* al_statemachine returns to the loop.
Return ==
  /\ pc' = "poll"
  /\ request' = 0
  /\ UNCHANGED <<alControl, evControl, EscAlEvent, app>>

Transition(from, to) ==
  /\ pc = "statemachine"
  /\ ~Blocked
  /\ Low(nAlStatus) = from
  /\ Low(request) = to
  /\ Return

Ignore ==
  /\ pc = "statemachine"
  /\ Blocked
  /\ Return
  /\ UNCHANGED <<evOutput, report, services>>

InitToPreop ==
  /\ Transition(INIT, PREOP)
  /\ mbx_startmailboxhandler
  /\ Accepted(PREOP)
  /\ UNCHANGED <<evOutput, inputs, outputs>>

PreopToSafeop ==
  /\ Transition(PREOP, SAFEOP)
  /\ \E out, in \in Sizes : pdo_startinputhandler(out, in)
  /\ Accepted(SAFEOP)
  /\ UNCHANGED <<evOutput, m_mbxrunning, outputs>>

SafeopToOp ==
  /\ Transition(SAFEOP, OP)
  /\ pdo_startoutputhandler
  /\ Accepted(OP)
  /\ UNCHANGED <<evOutput, m_mbxrunning, inputs>>

BugKeepsRunning ==
  /\ Transition(OP, SAFEOP)
  /\ Accepted(SAFEOP)
  /\ UNCHANGED <<evOutput, m_mbxrunning, inputs, outputs, smOff>>

OpToSafeop ==
  /\ Transition(OP, SAFEOP)
  /\ bEcatOutputUpdateRunning' = FALSE
  /\ Accepted(SAFEOP)
  /\ UNCHANGED <<evOutput, m_mbxrunning, inputs, bEcatLocalError, smOff>>

BugStopsMailbox ==
  /\ Transition(SAFEOP, PREOP) \/ Transition(OP, PREOP)
  /\ pdo_stop(0..3)
  /\ Accepted(PREOP)
  /\ UNCHANGED <<m_mbxrunning, nPdOutputSize, nPdInputSize, bEcatLocalError>>

DownToPreop ==
  /\ Transition(SAFEOP, PREOP) \/ Transition(OP, PREOP)
  /\ pdo_stop({2, 3})
  /\ Accepted(PREOP)
  /\ UNCHANGED <<m_mbxrunning, nPdOutputSize, nPdInputSize, bEcatLocalError>>

DownToInit ==
  /\ \E from \in {PREOP, SAFEOP, OP} : Transition(from, INIT)
  /\ m_mbxrunning' = FALSE
  /\ pdo_stop(0..3)
  /\ Accepted(INIT)
  /\ UNCHANGED <<nPdOutputSize, nPdInputSize, bEcatLocalError>>

Same ==
  /\ \E s \in States : Transition(s, s)
  /\ Repeated(Current)
  /\ UNCHANGED <<evOutput, services>>

\* A rung of the ladder was skipped, or the state does not exist here.
Invalid ==
  /\ \E from \in States : \E to \in 0..15 :
       /\ Transition(from, to)
       /\ \/ /\ <<from, to>> \in {<<INIT, SAFEOP>>, <<INIT, OP>>, <<PREOP, OP>>}
             /\ Refused(Current, InvalidAlControl)
          \/ /\ to \notin States
             /\ Refused(Current, UnknownAlControl)
  /\ UNCHANGED <<evOutput, services>>

al_statemachine ==
  \/ Ignore \/ InitToPreop \/ PreopToSafeop \/ SafeopToOp \/ OpToSafeop
  \/ DownToPreop \/ DownToInit \/ Same \/ Invalid

-----------------------------------------------------------------------------
(* main, free_run and al_event.                                            *)

\* main reads 0x0220 for free_run.
Poll ==
  /\ pc = "poll"
  /\ pc' = "free_run"
  /\ EscAlEvent' = evOutput
  /\ UNCHANGED <<alControl, events, report, services, app, request>>

\* Reading SM2 to its end clears its event; with length 0 nothing is read.
readoutputdata ==
  IF nPdOutputSize > 0
  THEN aPdOutputData' \in Data /\ evOutput' = FALSE
  ELSE UNCHANGED <<aPdOutputData, evOutput>>

\* bEscIntEnabled is never set, so the loop always runs free.
FreeRunOp ==
  /\ pc = "free_run"
  /\ EscAlEvent
  /\ bEcatOutputUpdateRunning
  /\ pc' = "al_event"
  /\ readoutputdata
  /\ dda' = aPdOutputData'
  /\ UNCHANGED <<alControl, evControl, EscAlEvent, report, services, request>>

BugOutputsInAnyState ==
  /\ pc = "free_run"
  /\ EscAlEvent
  /\ ~bEcatOutputUpdateRunning
  /\ pc' = "al_event"
  /\ aPdOutputData' \in Data
  /\ dda' = aPdOutputData'
  /\ UNCHANGED <<alControl, events, EscAlEvent, report, services, request>>

FreeRunZero ==
  /\ pc = "free_run"
  /\ EscAlEvent
  /\ ~bEcatOutputUpdateRunning
  /\ pc' = "al_event"
  /\ dda' = 0
  /\ UNCHANGED <<alControl, events, EscAlEvent, report, services, aPdOutputData, request>>

FreeRunIdle ==
  /\ pc = "free_run"
  /\ ~EscAlEvent
  /\ pc' = "al_event"
  /\ UNCHANGED <<alControl, events, EscAlEvent, report, services, app, request>>

\* al_event reads 0x0220 again ...
PollAgain ==
  /\ pc = "al_event"
  /\ pc' = "al_control"
  /\ EscAlEvent' = evControl
  /\ UNCHANGED <<alControl, events, report, services, app, request>>

\* ... and, if AL Control was written, 0x0120, which clears the event.
ReadControl ==
  /\ pc = "al_control"
  /\ EscAlEvent
  /\ pc' = "statemachine"
  /\ request' = alControl
  /\ evControl' = FALSE
  /\ UNCHANGED <<alControl, evOutput, EscAlEvent, report, services, app>>

NoControl ==
  /\ pc = "al_control"
  /\ ~EscAlEvent
  /\ pc' = "poll"
  /\ UNCHANGED <<alControl, events, EscAlEvent, report, services, app, request>>

Loop ==
  Poll \/ FreeRunOp \/ FreeRunZero \/ FreeRunIdle \/ PollAgain \/ ReadControl \/ NoControl
    \/ al_statemachine

-----------------------------------------------------------------------------
(* The master, through the ESC.                                            *)

WriteControl ==
  /\ alControl' \in Requests
  /\ evControl' = TRUE
  /\ UNCHANGED <<evOutput, EscAlEvent, report, services, app, request, pc>>

\* SM2 takes outputs unless the slave has switched it off.
SendOutputs ==
  /\ 2 \notin smOff
  /\ evOutput' = TRUE
  /\ UNCHANGED <<alControl, evControl, EscAlEvent, report, services, app, request, pc>>

Master == WriteControl \/ SendOutputs

-----------------------------------------------------------------------------
\* After ECAT_init and the first write to the PIO; the globals are zero but
\* for bEcatLocalError.
Init ==
  /\ alControl = INIT
  /\ alStatus = INIT
  /\ alCode = NoError
  /\ evControl = FALSE
  /\ evOutput = FALSE
  /\ mask = {}
  /\ smOff = {}
  /\ EscAlEvent = FALSE
  /\ nAlStatus = INIT
  /\ nAlStatusFailed = 0
  /\ nPdOutputSize = 0
  /\ nPdInputSize = 0
  /\ bEcatLocalError = TRUE
  /\ bEcatOutputUpdateRunning = FALSE
  /\ m_mbxrunning = FALSE
  /\ m_pdoinrun = FALSE
  /\ aPdOutputData = 0
  /\ dda = 1
  /\ request = 0
  /\ pc = "poll"

Next == Loop \/ Master

Spec == Init /\ [][Next]_vars

\* The processor runs the loop for ever; the master owes nothing.
FairSpec == Spec /\ WF_vars(Loop)

-----------------------------------------------------------------------------
\* The variables have their types; a state with or without the error bit is
\* all that is ever reported.
TypeOK ==
  /\ alControl \in 0..31 /\ request \in 0..31
  /\ alStatus \in Answers /\ nAlStatus \in Answers
  /\ nAlStatusFailed \in Answers \union {0}
  /\ alCode \in {NoError, InvalidAlControl, UnknownAlControl}
  /\ evControl \in BOOLEAN /\ evOutput \in BOOLEAN /\ EscAlEvent \in BOOLEAN
  /\ mask \in SUBSET {"output", "input"}
  /\ smOff \in SUBSET (0..3)
  /\ aPdOutputData \in Nat /\ dda \in Nat
  /\ nPdOutputSize \in Nat /\ nPdInputSize \in Nat
  /\ bEcatLocalError \in BOOLEAN /\ bEcatOutputUpdateRunning \in BOOLEAN
  /\ m_mbxrunning \in BOOLEAN /\ m_pdoinrun \in BOOLEAN
  /\ pc \in {"poll", "free_run", "al_event", "al_control", "statemachine"}

State == Low(nAlStatus)

\* bEcatOutputUpdateRunning marks the OP state (ec_def.h:383): start and stop
\* handlers and the state machine agree on every path in and out of OP.
RunningIffOp == bEcatOutputUpdateRunning <=> State = OP

\* The state the master reads is the state the slave is in, and an error it
\* reads comes with a reason, whatever was cleared or kept in between.
TruthfulStatus ==
  /\ alStatus = nAlStatus
  /\ HasError(alStatus) => alCode # NoError

\* The mailbox runs, on open sync managers, in every state but INIT.
MailboxFollowsState ==
  /\ m_mbxrunning <=> State # INIT
  /\ m_mbxrunning => smOff \intersect {0, 1} = {}

\* Inputs are served only in SAFEOP and OP and over an open SM3; outside these
\* states no process-data event is left enabled.
InputsFollowState ==
  /\ m_pdoinrun => State \in {SAFEOP, OP} /\ nPdInputSize > 0 /\ 3 \notin smOff
  /\ mask # {} <=> m_pdoinrun

\* The services that a state calls for run, and no others, over sync managers that are
\* open: the start and stop handlers that fall through into each other leave none behind.
ServicesFollowState == MailboxFollowsState /\ InputsFollowState

\* In OP the outputs of a slave that also has inputs arrive: whichever of the
\* two handlers should open SM2 has done so, on the first and on later starts.
OutputsOpen ==
  State = OP /\ nPdOutputSize > 0 /\ nPdInputSize > 0 => 2 \notin smOff

\* The interpolator is given something other than zero only in OP, and then
\* what was last read from SM2.
MotionOnlyInOp == [][dda' # dda /\ dda' # 0 => State = OP /\ dda' = aPdOutputData']_vars

\* The slave climbs one rung at a time, when asked to, and out of an error only
\* when the master has acknowledged it.
ClimbsOnRequest ==
  [][State' > State =>
       /\ <<State, State'>> \in {<<INIT, PREOP>>, <<PREOP, SAFEOP>>, <<SAFEOP, OP>>}
       /\ Low(request) = State'
       /\ HasError(nAlStatus) => Acknowledged]_vars

\* A master that asks for INIT and does not change its mind is obeyed, whatever
\* state and error the request finds the slave in and wherever the loop is.
InitReached ==
  (evControl /\ Low(alControl) = INIT) ~> (State = INIT \/ Low(alControl) # INIT)

-----------------------------------------------------------------------------
(* Stated by the source, and not kept by it.                               *)

\* SM2 carries the outputs from master to slave (main.c:106), so in OP with
\* outputs configured it is open.
OutputsAlwaysOpen == State = OP /\ nPdOutputSize > 0 => 2 \notin smOff
=============================================================================
