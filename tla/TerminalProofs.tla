---------------------------- MODULE TerminalProofs ----------------------------
(***************************************************************************)
(* Theorems about Terminal, for every set of platforms and every set of    *)
(* platforms on which the program may end early; those about the screen    *)
(* except macOS, whose exit handler does not leave the alternate screen.   *)
(***************************************************************************)
EXTENDS Terminal, TLAPS

\* Before the handlers are installed there are none, and no session.
Outside == pc \in {"idle", "flags", "reset"} => handled = {} /\ ~active

\* A session has all of its handlers; one that is being started is marked
\* active first on Linux and last on macOS.
Session ==
    /\ pc \in {"atexit", "enter", "ready", "report", "leave"} => active /\ handled = Signals
    /\ pc = "install" => (active <=> platform = "linux")

\* An early end is on Linux, and leaves the handlers alone.
Returning ==
    /\ goal = "exit" =>
         /\ platform = "linux" /\ handled = Signals
         /\ pc \in {"tty", "screen", "done"}

\* Which handlers are left when it has been given back.
Returned ==
    /\ pc \in {"tty", "screen"} /\ goal # "exit" /\ (platform = "linux" \/ ~active) => handled = {}
    /\ pc = "done" /\ goal # "exit" => handled = {}

\* What no poll has taken is in the word.  Before the handlers are installed
\* nobody is owed a signal; from then on the word holds nothing else.
Owing ==
    /\ owed \subseteq pending
    /\ pc \in {"idle", "flags", "reset"} => owed = {}
    /\ pc \in {"install", "atexit", "enter", "ready", "report"} =>
           pending \ {"winch"} \subseteq owed

\* Who has handlers, and what they have noted.
Handling ==
    /\ platform \in {"linux", "macos"}
    /\ Outside /\ Session /\ Returned /\ Owing

\* Where the alternate screen may be on, if the way back could be written.
Drawing ==
    screen # "main" /\ ~unwritten =>
        /\ active
        /\ \/ pc \in {"ready", "report", "leave"}
           \/ /\ platform = "linux" /\ goal \in {"exit", "exec"}
              /\ pc \in {"unhandle", "tty", "screen"}

\* Where the mode has been given back, or a signal has prevented it.
GivenBack ==
    \/ tty = "cooked"
    \/ interrupted
    \/ /\ pc \notin {"idle", "screen", "done"}
       /\ pc = "unhandle" => IF platform = "linux" THEN active ELSE ~active /\ goal = "start"

Over == life \in {"exited", "replaced"} => pc \in {"idle", "done"}

IInv ==
    /\ Handling
    /\ Returning /\ Drawing /\ GivenBack /\ Over
    /\ NeverKilledDrawing

-----------------------------------------------------------------------------
(***************************************************************************)
(* The handlers and what is owed, wherever the program may end.            *)
(***************************************************************************)

\* Nobody has handlers when the program starts.
LEMMA InitHandling == Init => Handling
  BY TerminalAssumption DEF Init, Handling, Outside, Session, Returned, Owing

\* A signal goes to the word only while its handler is installed.
LEMMA DeliverHandling ==
    ASSUME Handling, UNCHANGED platform, NEW s \in Signals, Deliver(s)
    PROVE  Handling'
<1> USE DEF Handling, Deliver
<1>1. Outside' /\ Session' /\ Returned'
  BY DEF Outside, Session, Returned, Go
<1>2. CASE s \in handled
  <2>1. pc \notin {"idle", "flags", "reset"} /\ Notify(s)
    BY <1>2 DEF Outside
  <2>2. pc' = pc \/ pc' = "screen"
    BY <1>2 DEF Go
  <2>3. Owing'
    BY <2>1, <2>2 DEF Owing, Notify
  <2> QED BY <1>1, <2>3
<1>3. CASE s \notin handled
  BY <1>1, <1>3 DEF Owing, word
<1> QED BY <1>2, <1>3

\* The program's own steps.
LEMMA ProgramHandling ==
    ASSUME Handling, UNCHANGED platform, Program
    PROVE  Handling'
<1> USE DEF Handling, Outside, Session, Returned, Owing, Running, Go, Give, word
<1>1. CASE MakeRaw \/ Flags
  BY <1>1 DEF MakeRaw, Flags
<1>2. CASE Reset
  BY <1>2 DEF Reset, FirstResize
<1>3. CASE Install
  BY <1>3 DEF Install
<1>4. CASE Activate
  BY <1>4 DEF Activate
<1>5. CASE Atexit \/ Enter
  BY <1>5 DEF Atexit, Enter
<1>6. CASE Take
  BY <1>6 DEF Take
<1>7. CASE Report
  BY <1>7 DEF Report
<1>8. CASE Stop \/ Leave \/ Exit \/ Execve
  BY <1>8 DEF Stop, Leave, Exit, Execve
<1>9. CASE Unhandle
  BY <1>9 DEF Unhandle
<1>10. CASE Unhandled
  BY <1>10 DEF Unhandled
<1>11. CASE ResetTty \/ ResetScreen
  BY <1>11 DEF ResetTty, ResetScreen
<1>12. CASE Done \/ Quit
  BY <1>12 DEF Done, Quit
<1> QED BY <1>1, <1>2, <1>3, <1>4, <1>5, <1>6, <1>7, <1>8, <1>9, <1>10, <1>11, <1>12 DEF Program

LEMMA HandlingAlways == Spec => []Handling
<1>1. Handling /\ [Next]_vars => Handling'
  <2> SUFFICES ASSUME Handling, [Next]_vars PROVE Handling'
    OBVIOUS
  <2>1. CASE UNCHANGED vars
    BY <2>1 DEF vars, word, Handling, Outside, Session, Returned, Owing
  <2> QED BY <2>1, DeliverHandling, ProgramHandling DEF Next
<1> QED BY <1>1, InitHandling, PTL DEF Spec

-----------------------------------------------------------------------------
\* The invariant holds when the program starts.
LEMMA InitInv == Init => IInv
  BY InitHandling DEF Init, IInv, Returning, Drawing, GivenBack, Over, NeverKilledDrawing

\* What IInv implies of Restored.
LEMMA InvRestored == IInv => Restored
  BY DEF IInv, Handling, Outside, Drawing, GivenBack, Over, Restored

\* A signal: one that kills meets either no alternate screen or a handler.
LEMMA DeliverInv ==
    ASSUME IInv, UNCHANGED platform, NEW s \in Signals, Deliver(s)
    PROVE  IInv'
<1> USE DEF IInv, Deliver, place
<1>1. Handling' /\ Over'
  BY DeliverHandling DEF Over, Go
<1>2. Returning' /\ Drawing' /\ GivenBack'
  BY DEF Handling, Returned, Returning, Drawing, GivenBack, Go
<1>3. NeverKilledDrawing'
  BY DEF NeverKilledDrawing, Handling, Session, Returned, Returning, Drawing, Go
<1> QED BY <1>1, <1>2, <1>3

\* Taking the terminal, using it and polling.
LEMMA TakingInv ==
    ASSUME IInv, UNCHANGED <<platform, interrupted>>,
           \/ MakeRaw \/ Flags \/ Reset \/ Install \/ Activate \/ Atexit \/ Enter
           \/ Take \/ Report
    PROVE  IInv'
<1>a. Handling'
  BY ProgramHandling DEF IInv, Program
<1>b. platform \in {"linux", "macos"} /\ Outside /\ Session /\ Returned
  BY DEF IInv, Handling
<1> USE <1>a, <1>b DEF IInv, Outside, Session, Returned, Returning, Drawing, GivenBack, Over,
                       NeverKilledDrawing, Running, Go, Give, Write, LeaveScreen, place, word
<1>1. CASE MakeRaw  BY <1>1 DEF MakeRaw
<1>2. CASE Flags    BY <1>2 DEF Flags
<1>3. CASE Reset    BY <1>3 DEF Reset
<1>4. CASE Install  BY <1>4 DEF Install
<1>5. CASE Activate BY <1>5 DEF Activate
<1>6. CASE Atexit   BY <1>6 DEF Atexit
<1>7. CASE Enter    BY <1>7 DEF Enter
<1>8. CASE Take     BY <1>8 DEF Take
<1>9. CASE Report   BY <1>9 DEF Report
<1> QED BY <1>1, <1>2, <1>3, <1>4, <1>5, <1>6, <1>7, <1>8, <1>9

\* Giving the terminal back.
LEMMA GivingInv ==
    ASSUME "macos" \notin EarlyExits, IInv, UNCHANGED <<platform, interrupted>>,
           \/ Stop \/ Leave \/ Exit \/ Execve \/ Unhandle \/ Unhandled
           \/ ResetTty \/ ResetScreen \/ Done \/ Quit
    PROVE  IInv'
<1>a. Handling'
  BY ProgramHandling DEF IInv, Program
<1>b. platform \in {"linux", "macos"} /\ Outside /\ Session /\ Returned
  BY DEF IInv, Handling
<1> USE <1>a, <1>b DEF IInv, Outside, Session, Returned, Returning, Drawing, GivenBack, Over,
                       NeverKilledDrawing, Running, Go, Give, Write, LeaveScreen, place, word
<1>1. CASE Stop        BY <1>1 DEF Stop
<1>2. CASE Leave       BY <1>2 DEF Leave
<1>3. CASE Exit        BY <1>3 DEF Exit
<1>4. CASE Execve      BY <1>4 DEF Execve
<1>5. CASE Unhandle    BY <1>5 DEF Unhandle
<1>6. CASE Unhandled   BY <1>6 DEF Unhandled
<1>7. CASE ResetTty    BY <1>7 DEF ResetTty
<1>8. CASE ResetScreen BY <1>8 DEF ResetScreen
<1>9. CASE Done        BY <1>9 DEF Done
<1>10. CASE Quit       BY <1>10 DEF Quit
<1> QED BY <1>1, <1>2, <1>3, <1>4, <1>5, <1>6, <1>7, <1>8, <1>9, <1>10

\* Every step preserves the invariant.
LEMMA NextInv ==
    ASSUME "macos" \notin EarlyExits, IInv, [Next]_vars
    PROVE  IInv'
<1>1. CASE Program /\ UNCHANGED <<platform, interrupted>>
  BY <1>1, TakingInv, GivingInv DEF Program
<1>2. ASSUME NEW s \in Signals, Deliver(s), UNCHANGED platform PROVE IInv'
  BY <1>2, DeliverInv
<1>3. CASE UNCHANGED vars
  BY <1>3 DEF vars, place, word, IInv, Handling, Outside, Session, Returned, Owing, Returning,
              Drawing, GivenBack, Over, NeverKilledDrawing
<1> QED BY <1>1, <1>2, <1>3 DEF Next

LEMMA InvAlways ==
    ASSUME "macos" \notin EarlyExits
    PROVE  Spec => []IInv
<1>1. IInv /\ [Next]_vars => IInv'
  BY NextInv
<1> QED BY <1>1, InitInv, PTL DEF Spec

-----------------------------------------------------------------------------
(***************************************************************************)
(* Every orderly end of the program (terminal_stop, the exit handler,      *)
(* execve) leaves the main screen, if that could be written, and, but for  *)
(* an interrupted tcsetattr, a cooked terminal; between sessions no        *)
(* handler stays installed.                                                *)
(***************************************************************************)
THEOREM TerminalRestored ==
    ASSUME "macos" \notin EarlyExits
    PROVE  Spec => []Restored
  BY InvAlways, InvRestored, PTL

(***************************************************************************)
(* No unhandled signal meets an alternate screen that could be left,       *)
(* except while the handlers are given back for execve: neither in         *)
(* restore_handlers nor in the exit handler.                               *)
(***************************************************************************)
THEOREM KilledOffScreen ==
    ASSUME "macos" \notin EarlyExits
    PROVE  Spec => []NeverKilledDrawing
<1>1. IInv => NeverKilledDrawing
  BY DEF IInv
<1> QED BY <1>1, InvAlways, PTL

(***************************************************************************)
(* A handled signal stays in the word until a poll takes it, and a poll    *)
(* reports none that was not sent: the word is cleared before the first    *)
(* handler exists, and taken and cleared in one exchange.                  *)
(***************************************************************************)
THEOREM SignalsOnce == Spec => []ExactlyOnce
<1>1. Handling => ExactlyOnce
  BY DEF Handling, Owing, ExactlyOnce
<1> QED BY <1>1, HandlingAlways, PTL
=============================================================================
