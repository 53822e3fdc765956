------------------------------- MODULE Terminal -------------------------------
(***************************************************************************)
(* Who owns the terminal: terminal_start, poll, terminal_stop, execve and  *)
(* the atexit handler of the native module, below src/wtop/terminal.lua.   *)
(*                                                                         *)
(* Signals arrive between any two system calls.  A handled one only sets a *)
(* bit of an atomic word, which poll takes and clears in one exchange; an  *)
(* unhandled one kills the program with the terminal as it then is.  Linux *)
(* (wtop_native.c) and macOS (wtop_macos.c) give the terminal back in      *)
(* different orders.                                                       *)
(***************************************************************************)
EXTENDS Integers, Sequences, SequencesExt

CONSTANTS
    Platforms,      \* what the module may be compiled for
    EarlyExits      \* where the program may end without terminal_stop

ASSUME TerminalAssumption ==
    /\ Platforms \subseteq {"linux", "macos"}
    /\ EarlyExits \subseteq Platforms

\* In the order install_handlers takes them.
Handlers == <<"winch", "int", "term", "hup">>
Signals  == ToSet(Handlers)
Foremost(S) == SelectSeq(Handlers, LAMBDA s : s \in S)[1]
Rearmost(S) == Last(SelectSeq(Handlers, LAMBDA s : s \in S))

VARIABLES
    platform,   \* the member of Platforms; it never changes
    life,       \* "running", "killed", "exited" or, after execve, "replaced"
    pc,         \* next system call of the program
    goal,       \* why the terminal is being given back
    tty,        \* "cooked" or "raw"
    screen,     \* "main" or "alternate"
    unwritten,  \* whether the last escape sequence for the screen could not be written
    active,     \* g_terminal.active
    handled,    \* signals whose handler is installed
    pending,    \* the atomic word
    taken,      \* what the present poll exchanged for 0
    owed,       \* handled signals no poll has taken yet
    interrupted \* whether a handled signal has interrupted tcsetattr (EINTR)

place == <<tty, screen, unwritten>>
word  == <<pending, taken, owed>>
vars  == <<platform, interrupted, life, pc, goal, place, active, handled, word>>

Init ==
    /\ platform \in Platforms /\ interrupted = FALSE
    /\ life = "running" /\ pc = "idle" /\ goal = "none"
    /\ tty = "cooked" /\ screen = "main" /\ unwritten = FALSE
    /\ active = FALSE /\ handled = {}
    /\ pending = {} /\ taken = {} /\ owed = {}

Go(to)    == pc' = to /\ UNCHANGED <<life, goal>>
Give(why, to) == pc' = to /\ goal' = why /\ UNCHANGED life

-----------------------------------------------------------------------------
(***************************************************************************)
(* A signal, at any moment.  SIGWINCH is ignored by default.  The handlers *)
(* are installed without SA_RESTART and nobody repeats the tcsetattr that  *)
(* gives the mode back: a signal may make it fail while it waits.          *)
(***************************************************************************)
Notify(s) ==
    /\ pending' = pending \cup {s}
    /\ owed' = owed \cup {s}
    /\ UNCHANGED taken

Deliver(s) ==
    /\ life = "running"
    /\ IF s \in handled
       THEN /\ Notify(s)
            /\ \/ UNCHANGED <<life, pc, goal, interrupted>>
               \/ pc = "tty" /\ Go("screen") /\ interrupted' = TRUE
       ELSE /\ s # "winch"
            /\ life' = "killed"
            /\ UNCHANGED <<pc, goal, word, interrupted>>
    /\ UNCHANGED <<place, active, handled>>

-----------------------------------------------------------------------------
(***************************************************************************)
(* terminal_start.                                                         *)
(***************************************************************************)
Running(at) == life = "running" /\ pc = at

\* Not a terminal, or tcgetattr or tcsetattr fails: nothing has changed.
MakeRaw ==
    /\ Running("idle") /\ ~active
    /\ tty' = "raw"
    /\ Give("none", "flags")
    /\ UNCHANGED <<screen, unwritten, active, handled, word>>

FlagsKeepingRaw ==  \* a mistake: the failure leaves the mode changed
    /\ Running("flags")
    /\ Go("reset") \/ (platform = "linux" /\ Go("idle"))
    /\ UNCHANGED <<place, active, handled, word>>

\* Linux reads the input flags next and undoes the mode when it cannot.
Flags ==
    /\ Running("flags")
    /\ \/ Go("reset") /\ UNCHANGED tty
       \/ platform = "linux" /\ Go("idle") /\ tty' = "cooked"
    /\ UNCHANGED <<screen, unwritten, active, handled, word>>

FirstResize == IF platform = "linux" THEN {"winch"} ELSE {}

\* The word is cleared before the first handler can set it.
Reset ==
    /\ Running("reset")
    /\ active' = (platform = "linux")
    /\ pending' = FirstResize
    /\ Go("install")
    /\ UNCHANGED <<place, handled, taken, owed>>

Install ==
    /\ Running("install") /\ handled # Signals
    /\ \/ handled' = handled \cup {Foremost(Signals \ handled)} /\ UNCHANGED <<life, pc, goal>>
       \/ Give("start", "unhandle") /\ UNCHANGED handled
    /\ UNCHANGED <<place, active, word>>

\* macOS announces the first resize here, with the handlers installed.
Activate ==
    /\ Running("install") /\ handled = Signals
    /\ active' = TRUE
    /\ pending' = pending \cup {"winch"}
    /\ Go("atexit")
    /\ UNCHANGED <<place, handled, taken, owed>>

Atexit ==
    /\ Running("atexit")
    /\ \/ Go("enter")
       \/ Give("start", IF platform = "linux" THEN "unhandle" ELSE "tty")
    /\ UNCHANGED <<place, active, handled, word>>

Write(to) == screen' = to /\ unwritten' = FALSE

\* terminal.lua switches to the alternate screen, or takes it all back; the
\* failing write may have got as far as the switch, which comes first in it.
Enter ==
    /\ Running("enter")
    /\ \/ Write("alternate") /\ Go("ready")
       \/ screen' \in {screen, "alternate"} /\ unwritten' = TRUE /\ Give("stop", "leave")
    /\ UNCHANGED <<tty, active, handled, word>>

-----------------------------------------------------------------------------
(***************************************************************************)
(* poll.  An error return takes nothing.                                   *)
(***************************************************************************)
Take ==
    /\ Running("ready")
    /\ taken' = pending
    /\ pending' = {}
    /\ owed' = owed \ pending
    /\ Go("report")
    /\ UNCHANGED <<place, active, handled>>

ReportClearing ==   \* a mistake: reading and clearing are two steps
    /\ Running("report")
    /\ taken' = {} /\ pending' = {}
    /\ Go("ready")
    /\ UNCHANGED <<place, active, handled, owed>>

\* The fields of the result table; signals may arrive meanwhile.
Report ==
    /\ Running("report")
    /\ taken' = {}
    /\ Go("ready")
    /\ UNCHANGED <<place, active, handled, pending, owed>>

-----------------------------------------------------------------------------
(***************************************************************************)
(* Giving the terminal back: terminal.lua writes the leave sequence and    *)
(* calls terminal_stop; the atexit handler and execve call the same C.     *)
(* Linux removes the handlers first and resets the mode and screen then;   *)
(* macOS resets the mode with the handlers still installed.                *)
(***************************************************************************)
StopUnhandling ==   \* a mistake: the handlers go before the screen
    /\ Running("ready")
    /\ Give("stop", "unhandle")
    /\ UNCHANGED <<place, active, handled, word>>

Stop ==
    /\ Running("ready")
    /\ Give("stop", "leave")
    /\ UNCHANGED <<place, active, handled, word>>

\* The way back comes last in the sequence: a failing write leaves the screen,
\* and terminal_stop is called all the same.
LeaveScreen == Write("main") \/ (unwritten' = TRUE /\ UNCHANGED screen)

Leave ==
    /\ Running("leave")
    /\ LeaveScreen
    /\ Go(IF platform = "linux" THEN "unhandle" ELSE "tty")
    /\ UNCHANGED <<tty, active, handled, word>>

\* The atexit handler leaves the signal handlers alone on Linux.
Exit ==
    /\ platform \in EarlyExits /\ Running("ready")
    /\ Give("exit", "tty")
    /\ UNCHANGED <<place, active, handled, word>>

Execve ==
    /\ platform = "linux"
    /\ Running("ready") \/ Running("idle")
    /\ Give("exec", "unhandle")
    /\ UNCHANGED <<place, active, handled, word>>

\* restore_handlers, one sigaction at a time; a failed start on macOS
\* returns them last first.
NextReturned ==
    IF platform = "macos" /\ goal = "start" /\ ~active
    THEN Rearmost(handled) ELSE Foremost(handled)

Unhandle ==
    /\ Running("unhandle") /\ handled # {}
    /\ handled' = handled \ {NextReturned}
    /\ UNCHANGED <<life, pc, goal, place, active, word>>

Unhandled ==
    /\ Running("unhandle") /\ handled = {}
    /\ Go(CASE platform = "macos" /\ (active \/ goal # "start") -> "done"
            [] platform = "macos" -> "tty"
            [] active -> "tty"
            [] OTHER -> "done")
    /\ UNCHANGED <<place, active, handled, word>>

ResetTty ==
    /\ Running("tty")
    /\ tty' = "cooked"
    /\ Go("screen")
    /\ UNCHANGED <<screen, unwritten, active, handled, word>>

\* The best-effort escape sequence, which only Linux writes.
ResetScreen ==
    /\ Running("screen")
    /\ IF platform = "linux" THEN LeaveScreen ELSE UNCHANGED <<screen, unwritten>>
    /\ Go(IF platform = "macos" /\ active THEN "unhandle" ELSE "done")
    /\ UNCHANGED <<tty, active, handled, word>>

Done ==
    /\ Running("done")
    /\ active' = FALSE
    /\ \/ goal \in {"start", "stop"} /\ pc' = "idle" /\ UNCHANGED life
       \/ goal = "exit" /\ life' = "exited" /\ UNCHANGED pc
       \/ goal = "exec" /\ life' = "replaced" /\ UNCHANGED pc
       \/ goal = "exec" /\ pc' = "idle" /\ UNCHANGED life
    /\ owed' = {}
    /\ UNCHANGED <<goal, place, handled, pending, taken>>

Quit ==
    /\ Running("idle")
    /\ life' = "exited"
    /\ UNCHANGED <<pc, goal, place, active, handled, word>>

Program ==
    \/ MakeRaw \/ Flags \/ Reset \/ Install \/ Activate \/ Atexit \/ Enter
    \/ Take \/ Report
    \/ Stop \/ Leave \/ Exit \/ Execve \/ Unhandle \/ Unhandled
    \/ ResetTty \/ ResetScreen \/ Done \/ Quit

Next ==
    /\ UNCHANGED platform
    /\ \/ Program /\ UNCHANGED interrupted
       \/ \E s \in Signals : Deliver(s)
Spec == Init /\ [][Next]_vars

-----------------------------------------------------------------------------
(***************************************************************************)
(* A program that ends or is replaced by execve in an orderly way leaves a *)
(* cooked terminal on the main screen, from every state it can end in,     *)
(* unless a signal has interrupted the call that gives the mode back, or   *)
(* the sequence that leaves the screen could not be written.  Between      *)
(* sessions, a failed start included, no handler of ours stays installed.  *)
(***************************************************************************)
Restored ==
    /\ life \in {"exited", "replaced"} =>
        /\ screen = "main" \/ unwritten
        /\ tty = "cooked" \/ interrupted
    /\ pc = "idle" => handled = {} /\ ~active

(***************************************************************************)
(* Every handled signal is reported by a poll exactly once: it stays in    *)
(* the word until one takes it, whenever it arrives, and a poll reports no *)
(* signal that was not sent (but the first resize).                        *)
(***************************************************************************)
ExactlyOnce ==
    /\ pc \in {"enter", "ready", "report"} => pending \ {"winch"} \subseteq owed
    /\ owed \subseteq pending

(***************************************************************************)
(* A signal may kill the program while it takes or gives back the          *)
(* terminal, but not on the alternate screen, unless the way back could    *)
(* not be written.  execve is exempt: it returns the handlers first, with  *)
(* the alternate screen still on if it is called during a session, which   *)
(* the code allows and the program does not do.                            *)
(***************************************************************************)
NeverKilledDrawing ==
    life = "killed" /\ goal # "exec" => screen = "main" \/ unwritten
=============================================================================
