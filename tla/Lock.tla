-------------------------------- MODULE Lock --------------------------------
(***************************************************************************)
(* ServerCore/Lock.cpp: the recursive spin reader-writer lock every other  *)
(* part of the server is guarded with.  The 32-bit _lockFlag holds the     *)
(* writing thread in its upper half and the number of read guards in its   *)
(* lower half; _writeCount, the nesting depth of the writer, is a plain    *)
(* integer.  Every access to either word is a step of its own.             *)
(*                                                                         *)
(* The callers use the lock through WriteLockGuard and ReadLockGuard       *)
(* (Lock.h:35-55), so guards are dropped in the reverse of the order they  *)
(* were taken, and by the contract of Lock.h:11 a thread never asks for a  *)
(* write guard under a read guard: what a thread holds is some write       *)
(* guards and, above them, some read guards.                               *)
(***************************************************************************)
EXTENDS Integers, FiniteSets

CONSTANTS
    Threads,    \* threads with an LThreadId; distinct ids below 2^16
    NoThread,   \* the id 0 in the upper half: nobody writes
    MaxDepth    \* bound: guards one thread nests on the lock

ASSUME LockAssumption ==
    /\ IsFiniteSet(Threads)
    /\ NoThread \notin Threads
    /\ MaxDepth \in Nat \ {0}

VARIABLES
    flag,       \* _lockFlag: its two halves
    writeCount, \* _writeCount
    pc,         \* where each thread is in the four operations
    expected,   \* the local variable of ReadLock
    wr, rd,     \* guards each thread holds, by kind
    crash       \* the CRASH that ended the process, or "none"

vars == <<flag, writeCount, pc, expected, wr, rd, crash>>

Empty == [writer |-> NoThread, readers |-> 0]

Init ==
    /\ flag = Empty
    /\ writeCount = 0
    /\ pc = [t \in Threads |-> "idle"]
    /\ expected = [t \in Threads |-> 0]
    /\ wr = [t \in Threads |-> 0]
    /\ rd = [t \in Threads |-> 0]
    /\ crash = "none"

\* Thread t moves from label a to label b; nothing moves once a CRASH ended
\* the process.
Goto(t, a, b) ==
    /\ crash = "none"
    /\ pc[t] = a
    /\ pc' = [pc EXCEPT ![t] = b]

Room(t) == wr[t] + rd[t] < MaxDepth

-----------------------------------------------------------------------------
(* WriteLock *)

\* The load: the owner nests, anyone else spins.
WriteLock(t) ==
    /\ Room(t) /\ rd[t] = 0
    /\ Goto(t, "idle", IF flag.writer = t THEN "wInc" ELSE "wSpin")
    /\ UNCHANGED <<flag, writeCount, expected, wr, rd, crash>>

\* Mutant of WriteCas: the exchange expects no writer and leaves the readers
\* alone.
WriteCasBesideReaders(t) ==
    /\ flag.writer = NoThread
    /\ Goto(t, "wSpin", "wInc")
    /\ flag' = [flag EXCEPT !.writer = t]
    /\ UNCHANGED <<writeCount, expected, wr, rd, crash>>

\* The compare-exchange succeeds; a failing one changes nothing.
WriteCas(t) ==
    /\ flag = Empty
    /\ Goto(t, "wSpin", "wInc")
    /\ flag' = [flag EXCEPT !.writer = t]
    /\ UNCHANGED <<writeCount, expected, wr, rd, crash>>

\* _writeCount++, on both paths; the guard is now held.
WriteInc(t) ==
    /\ Goto(t, "wInc", "idle")
    /\ writeCount' = writeCount + 1
    /\ wr' = [wr EXCEPT ![t] = @ + 1]
    /\ UNCHANGED <<flag, expected, rd, crash>>

-----------------------------------------------------------------------------
(* WriteUnlock *)

\* The read count is checked first: a read guard of the lock still there
\* is an unlock out of order.
WriteUnlock(t) ==
    /\ wr[t] > 0 /\ rd[t] = 0
    /\ Goto(t, "idle", "wDec")
    /\ crash' = IF flag.readers # 0 THEN "INVALID_UNLOCK_ORDER" ELSE crash
    /\ UNCHANGED <<flag, writeCount, expected, wr, rd>>

\* Mutant of WriteDec: _writeCount-- is compared instead of --_writeCount.
WriteDecPostfix(t) ==
    /\ Goto(t, "wDec", IF writeCount = 0 THEN "wStore" ELSE "idle")
    /\ writeCount' = writeCount - 1
    /\ wr' = [wr EXCEPT ![t] = @ - 1]
    /\ UNCHANGED <<flag, expected, rd, crash>>

\* --_writeCount; an inner guard is dropped by that alone.
WriteDec(t) ==
    /\ Goto(t, "wDec", IF writeCount = 1 THEN "wStore" ELSE "idle")
    /\ writeCount' = writeCount - 1
    /\ wr' = IF writeCount = 1 THEN wr ELSE [wr EXCEPT ![t] = @ - 1]
    /\ UNCHANGED <<flag, expected, rd, crash>>

\* The outermost guard is dropped by storing EMPTY_FLAG.
WriteStore(t) ==
    /\ Goto(t, "wStore", "idle")
    /\ flag' = Empty
    /\ wr' = [wr EXCEPT ![t] = @ - 1]
    /\ UNCHANGED <<writeCount, expected, rd, crash>>

-----------------------------------------------------------------------------
(* ReadLock and ReadUnlock *)

\* Mutant of ReadLock: it nests under any writer.
ReadLockUnderAnyWriter(t) ==
    /\ Room(t)
    /\ Goto(t, "idle", IF flag.writer # NoThread THEN "rNest" ELSE "rSpin")
    /\ UNCHANGED <<flag, writeCount, expected, wr, rd, crash>>

ReadLock(t) ==
    /\ Room(t)
    /\ Goto(t, "idle", IF flag.writer = t THEN "rNest" ELSE "rSpin")
    /\ UNCHANGED <<flag, writeCount, expected, wr, rd, crash>>

\* Mutant of ReadNest: a writer's own read guard is not counted.
ReadNestUncounted(t) ==
    /\ Goto(t, "rNest", "idle")
    /\ rd' = [rd EXCEPT ![t] = @ + 1]
    /\ UNCHANGED <<flag, writeCount, expected, wr, crash>>

\* _lockFlag++ by the writer itself.
ReadNest(t) ==
    /\ Goto(t, "rNest", "idle")
    /\ flag' = [flag EXCEPT !.readers = @ + 1]
    /\ rd' = [rd EXCEPT ![t] = @ + 1]
    /\ UNCHANGED <<writeCount, expected, wr, crash>>

\* expected = _lockFlag & READ_COUNT_MASK
ReadLoad(t) ==
    /\ Goto(t, "rSpin", "rCas")
    /\ expected' = [expected EXCEPT ![t] = flag.readers]
    /\ UNCHANGED <<flag, writeCount, wr, rd, crash>>

\* Mutant of ReadCas: a test of the word and a store of expected + 1.
ReadCasNotAtomic(t) ==
    /\ flag.writer = NoThread
    /\ Goto(t, "rCas", "idle")
    /\ flag' = [flag EXCEPT !.readers = expected[t] + 1]
    /\ rd' = [rd EXCEPT ![t] = @ + 1]
    /\ UNCHANGED <<writeCount, expected, wr, crash>>

\* The exchange succeeds only on a word with no writer and that same count.
ReadCas(t) ==
    /\ flag = [writer |-> NoThread, readers |-> expected[t]]
    /\ Goto(t, "rCas", "idle")
    /\ flag' = [flag EXCEPT !.readers = @ + 1]
    /\ rd' = [rd EXCEPT ![t] = @ + 1]
    /\ UNCHANGED <<writeCount, expected, wr, crash>>

ReadCasFails(t) ==
    /\ flag # [writer |-> NoThread, readers |-> expected[t]]
    /\ Goto(t, "rCas", "rSpin")
    /\ UNCHANGED <<flag, writeCount, expected, wr, rd, crash>>

\* fetch_sub(1), then the check of the value it had.
ReadUnlock(t) ==
    /\ rd[t] > 0
    /\ Goto(t, "idle", "idle")
    /\ flag' = [flag EXCEPT !.readers = @ - 1]
    /\ rd' = [rd EXCEPT ![t] = @ - 1]
    /\ crash' = IF flag.readers = 0 THEN "MULTIPLE_UNLOCK" ELSE crash
    /\ UNCHANGED <<writeCount, expected, wr>>

\* A thread spun MAX_SPIN_COUNT times and found the clock past its limit; how
\* long a wait lasts is left open, and no wait has to last that long.
TimeOut(t) ==
    /\ \E label \in {"wSpin", "rSpin"} : Goto(t, label, label)
    /\ crash' = "LOCK_TIMEOUT"
    /\ UNCHANGED <<flag, writeCount, expected, wr, rd>>

-----------------------------------------------------------------------------
\* Steps a thread takes once it called an operation, and the end of a guard's
\* scope, which its thread reaches.
Progress(t) ==
    \/ WriteCas(t) \/ WriteInc(t) \/ WriteUnlock(t) \/ WriteDec(t)
    \/ WriteStore(t) \/ ReadNest(t) \/ ReadLoad(t) \/ ReadCas(t)
    \/ ReadCasFails(t) \/ ReadUnlock(t)

Next == \E t \in Threads :
            Progress(t) \/ WriteLock(t) \/ ReadLock(t) \/ TimeOut(t)

Spec == Init /\ [][Next]_vars

FairSpec == Spec /\ \A t \in Threads : WF_vars(Progress(t))

-----------------------------------------------------------------------------
(* Properties *)

Labels == {"idle", "wSpin", "wInc", "wDec", "wStore", "rNest", "rSpin", "rCas"}
Crashes == {"none", "LOCK_TIMEOUT", "INVALID_UNLOCK_ORDER", "MULTIPLE_UNLOCK"}

\* The type invariant; it also says that neither half of the word underflows.
TypeOK ==
    /\ flag \in [writer : Threads \cup {NoThread}, readers : Nat]
    /\ writeCount \in Nat
    /\ pc \in [Threads -> Labels]
    /\ expected \in [Threads -> Nat]
    /\ wr \in [Threads -> 0..MaxDepth]
    /\ rd \in [Threads -> 0..MaxDepth]
    /\ crash \in Crashes

\* t is between the exchange that took the lock for writing and the store
\* that gives it back.
Writing(t) == wr[t] > 0 \/ pc[t] = "wInc"

\* Lock.h:5: a thread writing under the lock is alone: nobody else has a
\* write guard, a read guard, or the word taken and the count not yet raised.
WriterExcludesAll ==
    \A t, u \in Threads :
        t # u /\ Writing(t) => ~Writing(u) /\ rd[u] = 0

\* The plain _writeCount is never touched by two threads at once (it would
\* be a data race): only the thread whose id is in the word is about to
\* change it, and it is the number of guards that thread still has to drop.
WriteCountIsOwners ==
    \A t \in Threads :
        /\ pc[t] \in {"wInc", "wDec", "wStore"} => flag.writer = t
        /\ flag.writer = t =>
               writeCount = IF pc[t] = "wStore" THEN 0 ELSE wr[t]

\* One token per read guard that is held.
ReadGuards == {g \in Threads \X (1..MaxDepth) : g[2] <= rd[g[1]]}

\* The lower half of the word counts the read guards exactly, whatever
\* exchanges and decrements raced: a guard never counted, or counted twice,
\* lets a writer in beside a reader or locks it out for ever.
ReadersCounted == flag.readers = Cardinality(ReadGuards)

\* Both halves of the word and the plain count beside it agree with the guards
\* that are held, at every step of every call.
WordIsExact == WriteCountIsOwners /\ ReadersCounted

\* Callers that respect Lock.h:8-11 never meet the two unlock CRASHes of
\* Lock.cpp:46 and Lock.cpp:90.
UnlocksAreValid == crash \notin {"INVALID_UNLOCK_ORDER", "MULTIPLE_UNLOCK"}

\* A spinning thread is never left with a lock that nobody holds: sooner or
\* later somebody is let in, unless a wait that did last too long ended the
\* process first.  (Which thread is not promised: the exchange is a race, and
\* a writer may lose it to readers for ever.)
LockNeverStuck ==
    (\E t \in Threads : pc[t] \in {"wSpin", "rSpin", "rCas"})
        ~> (crash # "none" \/ \E t \in Threads : wr[t] + rd[t] > 0)

\* The lock implements the abstract reader-writer lock: a write guard is
\* taken at _writeCount++ and dropped at the decrement or, for the outermost
\* one, at the store; a read guard is taken and dropped at the change of the
\* word.
RW == INSTANCE RWLock
ImplementsRWLock == RW!Spec
=============================================================================
