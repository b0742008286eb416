------------------------------ MODULE LogQueue ------------------------------
(***************************************************************************)
(* The asynchronous log: threads that log put a line into a bounded queue  *)
(* or, if it is full, into the file themselves; one thread writes what is  *)
(* queued; a new day or enough lines make a new file.  mtx_ guards each of *)
(* the two parts of Log::write, not both together.                         *)
(***************************************************************************)
EXTENDS Integers, Sequences, FiniteSets, SequencesExt

CONSTANTS
  LThreads,   \* threads that log
  LMaxSeq,    \* bound of the lines logged
  LCapacity,  \* capacity_ of the BlockDeque
  LMaxLines,  \* MAX_LINES
  LDays       \* bound of the days

\* BlockDeque asserts that it has room for something.
ASSUME LogAssumption ==
  /\ LCapacity \in Nat \ {0} /\ LMaxLines \in Nat \ {0}
  /\ LMaxSeq \in Nat /\ LDays \in Nat \ {0}

VARIABLES
  lDay,      \* the clock's day
  lPlace,    \* per thread: the place in write, and the day it has read
  lToDay, lCount,  \* to_day_, line_count_
  lFile,     \* the file fp_ is: <<day, number>>
  lDeque,    \* lines, numbered in the order they are appended
  lHand,     \* the line __asyncWrite has popped, or none
  lOut,      \* all lines in files, in the order written: [seq, direct, file]
  lNext      \* the number of the next line

lVars == <<lDay, lPlace, lToDay, lCount, lFile, lDeque, lHand, lOut, lNext>>
lFileVars == <<lToDay, lCount, lFile>>
lLines    == <<lDeque, lHand, lOut, lNext>>

Nothing == 0
At0 == [at |-> "out", day |-> 1]

LInit ==
  /\ lDay = 1 /\ lPlace = [t \in LThreads |-> At0]
  /\ lToDay = 1 /\ lCount = 0 /\ lFile = <<1, "first">>
  /\ lDeque = <<>> /\ lHand = Nothing /\ lOut = <<>> /\ lNext = 1

LMidnight == lDay < LDays /\ lDay' = lDay + 1 /\ UNCHANGED <<lPlace, lFileVars, lLines>>

\* The time is read before any lock is taken.
LWrite(t) ==
  /\ lPlace[t].at = "out" /\ lNext <= LMaxSeq
  /\ lPlace' = [lPlace EXCEPT ![t] = [at |-> "check", day |-> lDay]]
  /\ UNCHANGED <<lDay, lFileVars, lLines>>

\* Whether to change the file; the lock is given up before it is changed.
LCheck(t) ==
  /\ lPlace[t].at = "check"
  /\ lPlace' = [lPlace EXCEPT ![t].at =
       IF lToDay # lPlace[t].day \/ (lCount # 0 /\ lCount % LMaxLines = 0)
       THEN "change" ELSE "append"]
  /\ UNCHANGED <<lDay, lFileVars, lLines>>

\* Mutant: what is queued goes with the old file.
LChangeFileDrops(t) ==
  /\ lPlace[t].at = "change"
  /\ lToDay' = lPlace[t].day /\ lFile' = <<lPlace[t].day, "first">> /\ lCount' = 0
  /\ lDeque' = <<>>
  /\ lPlace' = [lPlace EXCEPT ![t].at = "append"]
  /\ UNCHANGED <<lDay, lHand, lOut, lNext>>

\* A thread that was late goes back to its own day; one whose day another thread
\* has already opened takes the branch of a full file, although it has no lines.
LChangeFile(t) ==
  /\ lPlace[t].at = "change"
  /\ IF lToDay # lPlace[t].day
     THEN /\ lToDay' = lPlace[t].day /\ lCount' = 0
          /\ lFile' = <<lPlace[t].day, "first">>
     ELSE /\ lFile' = <<lPlace[t].day, lCount \div LMaxLines>>
          /\ UNCHANGED <<lToDay, lCount>>
  /\ lPlace' = [lPlace EXCEPT ![t].at = "append"]
  /\ UNCHANGED <<lDay, lLines>>

Full == Len(lDeque) >= LCapacity
LWritten(seq, direct) == [seq |-> seq, direct |-> direct, file |-> lFile]

\* push_back waits for room, with mtx_ held; there is room, as only a thread that
\* holds mtx_ adds.
LAppend(t) ==
  /\ lPlace[t].at = "append" /\ lNext <= LMaxSeq
  /\ lCount' = lCount + 1
  /\ IF ~Full THEN lDeque' = Append(lDeque, lNext) /\ UNCHANGED lOut
     ELSE lOut' = Append(lOut, LWritten(lNext, TRUE)) /\ UNCHANGED lDeque
  /\ lNext' = lNext + 1
  /\ lPlace' = [lPlace EXCEPT ![t] = At0]
  /\ UNCHANGED <<lDay, lToDay, lFile, lHand>>

\* Mutant: the newest line first.
LPopBack ==
  /\ lHand = Nothing /\ lDeque # <<>>
  /\ lHand' = Last(lDeque) /\ lDeque' = Front(lDeque)
  /\ UNCHANGED <<lDay, lPlace, lFileVars, lOut, lNext>>

\* __asyncWrite: pop, and then write under mtx_ to whatever file there is by then.
LPop ==
  /\ lHand = Nothing /\ lDeque # <<>>
  /\ lHand' = Head(lDeque) /\ lDeque' = Tail(lDeque)
  /\ UNCHANGED <<lDay, lPlace, lFileVars, lOut, lNext>>

LPut ==
  /\ lHand # Nothing
  /\ lOut' = Append(lOut, LWritten(lHand, FALSE)) /\ lHand' = Nothing
  /\ UNCHANGED <<lDay, lPlace, lFileVars, lDeque, lNext>>

LNext ==
  \/ \E t \in LThreads : LWrite(t) \/ LCheck(t) \/ LChangeFile(t) \/ LAppend(t)
  \/ LPop \/ LPut \/ LMidnight

LSpec == LInit /\ [][LNext]_lVars

LTypeOK ==
  /\ lDay \in 1..LDays /\ lToDay \in 1..LDays
  /\ Len(lDeque) <= LCapacity /\ lHand \in 0..LMaxSeq

\* A line is in a file, in the queue or in the writer's hand, and in one of them
\* once, through changes of the file that several threads find necessary together.
LOnce ==
  \A n \in 1..(lNext - 1) :
    Cardinality({i \in DOMAIN lOut : lOut[i].seq = n})
    + Cardinality({i \in DOMAIN lDeque : lDeque[i] = n}) + (IF lHand = n THEN 1 ELSE 0) = 1

\* Only a line that found the queue full is written before an earlier one, and it
\* passes no more of them than the queue and the writer's hand can hold.
Overtaken(i) ==
  {n \in 1..(lOut[i].seq - 1) : \A k \in 1..i : lOut[k].seq # n}
LOrder ==
  \A i \in DOMAIN lOut :
    /\ Overtaken(i) # {} => lOut[i].direct
    /\ Cardinality(Overtaken(i)) <= LCapacity + 1
=============================================================================
