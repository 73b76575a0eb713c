---------------------------- MODULE SynchConsole ----------------------------
(***************************************************************************)
(* The simulated console (machine/console.cc) and its synchronous          *)
(* interface (userprog/synchconsole.cc), with the PutInt that MP1 adds to  *)
(* it.  A character is a value; EOF is the value of an empty input buffer, *)
(* which is also what the byte 0xFF becomes in a variable of type char.    *)
(***************************************************************************)
EXTENDS Synch, Integers

CONSTANTS Char,    \* the characters that may be typed, EOF (0xFF) among them
          EOF

VARIABLES given,       \* what the input file held at the start (a history)
          typed,       \* what the input file still holds
          incoming,    \* the input buffer
          readDue,     \* number of pending ConsoleReadInt interrupts
          taken,       \* what GetChar has returned, in order (a history)
          putBusy,     \* a PutChar is in progress
          writeDue,    \* number of pending ConsoleWriteInt interrupts
          idx,         \* PutInt: the next character of each thread's string
          screen       \* the output file: whose string, which character

inVars  == <<given, typed, incoming, readDue, taken>>
outVars == <<putBusy, writeDue, idx, screen>>
consoleVars == <<inVars, outVars>>

\* ConsoleInput's constructor schedules the first poll.
ConsoleInit(input) == /\ given = input
                      /\ typed = input
                      /\ incoming = EOF
                      /\ readDue = 1
                      /\ taken = <<>>
                      /\ putBusy = FALSE
                      /\ writeDue = 0
                      /\ idx = [t \in Thread |-> 0]
                      /\ screen = <<>>

-----------------------------------------------------------------------------
\* SynchConsoleOutput::PutChar and PutInt: a string of cur[t].arg characters
\* (one for PutChar, the digits and a newline for PutInt), under the lock.
\* Mutant: a string is written without the lock.
OutAcquireNothing(t) == /\ At(t, "out.acquire") /\ Goto(t, "out.put")
                        /\ idx' = [idx EXCEPT ![t] = 0]
                        /\ UNCHANGED <<synchVars, callVars, inVars, putBusy, writeDue, screen>>

OutAcquire(t) == /\ At(t, "out.acquire")
                 /\ Acquire(t, "out", "out.put")
                 /\ idx' = [idx EXCEPT ![t] = 0]
                 /\ UNCHANGED <<callVars, inVars, putBusy, writeDue, screen>>

\* Mutant: PutInt waits once, after its last character.
OutPutWithoutWait(t) ==
    /\ At(t, "out.put")
    /\ Goto(t, IF idx[t] + 1 < cur[t].arg THEN "out.put" ELSE "out.wait")
    /\ screen' = Append(screen, [by |-> t, at |-> idx[t] + 1, of |-> cur[t].arg])
    /\ putBusy' = TRUE
    /\ writeDue' = writeDue + 1
    /\ idx' = [idx EXCEPT ![t] = @ + 1]
    /\ UNCHANGED <<synchVars, callVars, inVars>>

OutPut(t) == /\ At(t, "out.put") /\ Goto(t, "out.wait")
             /\ screen' = Append(screen, [by |-> t, at |-> idx[t] + 1, of |-> cur[t].arg])
             /\ putBusy' = TRUE
             /\ writeDue' = writeDue + 1
             /\ idx' = [idx EXCEPT ![t] = @ + 1]
             /\ UNCHANGED <<synchVars, callVars, inVars>>

OutWait(t) == /\ At(t, "out.wait")
              /\ P(t, "out.done", IF idx[t] < cur[t].arg THEN "out.put" ELSE "out.disown")
              /\ UNCHANGED <<holder, callVars, consoleVars>>

OutDisown(t) == /\ At(t, "out.disown") /\ Goto(t, "out.unlock")
                /\ Disown(t, "out")
                /\ UNCHANGED <<sem, callVars, consoleVars>>

OutUnlock(t) == /\ At(t, "out.unlock") /\ Goto(t, "idle")
                /\ V("out")
                /\ UNCHANGED <<holder, callVars, consoleVars>>

\* ConsoleOutput::CallBack and SynchConsoleOutput::CallBack.
WriteInterrupt == /\ writeDue > 0
                  /\ writeDue' = writeDue - 1
                  /\ putBusy' = FALSE
                  /\ V("out.done")
                  /\ UNCHANGED <<holder, pc, callVars, inVars, idx, screen>>

-----------------------------------------------------------------------------
\* SynchConsoleInput::GetChar.
InAcquire(t) == /\ At(t, "in.acquire")
                /\ Acquire(t, "in", "in.wait")
                /\ UNCHANGED <<callVars, consoleVars>>

InWait(t) == /\ At(t, "in.wait")
             /\ P(t, "in.ready", "in.get")
             /\ UNCHANGED <<holder, callVars, consoleVars>>

\* ConsoleInput::GetChar polls again only after a character that is not EOF.
InGet(t) == /\ At(t, "in.get") /\ Goto(t, "in.disown")
            /\ Returns(t, incoming)
            /\ taken' = Append(taken, incoming)
            /\ readDue' = IF incoming # EOF THEN readDue + 1 ELSE readDue
            /\ incoming' = EOF
            /\ UNCHANGED <<synchVars, cur, given, typed, outVars>>

InDisown(t) == /\ At(t, "in.disown") /\ Goto(t, "in.unlock")
               /\ Disown(t, "in")
               /\ UNCHANGED <<sem, callVars, consoleVars>>

InUnlock(t) == /\ At(t, "in.unlock") /\ Goto(t, "idle")
               /\ V("in")
               /\ UNCHANGED <<holder, callVars, consoleVars>>

\* ConsoleInput::CallBack with a character to read; with nothing to read yet
\* it only schedules the next poll, which changes nothing here.
ReadInterrupt == /\ readDue > 0
                 /\ readDue' = readDue - 1
                 /\ typed # <<>>
                 /\ incoming' = Head(typed)
                 /\ typed' = Tail(typed)
                 /\ V("in.ready")
                 /\ UNCHANGED <<holder, pc, callVars, given, taken, outVars>>

\* The same at the end of a regular file: no character, and no more polls.
EndOfFile == /\ readDue > 0
             /\ readDue' = readDue - 1
             /\ typed = <<>>
             /\ V("in.ready")
             /\ UNCHANGED <<holder, pc, callVars, given, typed, incoming, taken, outVars>>

ConsoleStep(t) == \/ OutAcquire(t) \/ OutPut(t) \/ OutWait(t)
                  \/ OutDisown(t) \/ OutUnlock(t)
                  \/ InAcquire(t) \/ InWait(t) \/ InGet(t)
                  \/ InDisown(t) \/ InUnlock(t)
=============================================================================
