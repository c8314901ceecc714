------------------------------- MODULE Buffers -------------------------------
(***************************************************************************)
(* The two buffers of ehp that double: array_t (src/src/array.cc) and what *)
(* file_read_nonblock reads into (src/src/file.cc).                        *)
(***************************************************************************)
EXTENDS Integers

CONSTANTS
    ArrayCap,   \* capacity of a new array
    ReadCap,    \* bufcap at the start
    MaxCap      \* bound on the capacities

ASSUME BuffersAssumption ==
    ArrayCap \in Nat \ {0} /\ ReadCap \in Nat \ {0} /\ MaxCap \in Nat

VARIABLES
    arrLen, arrCap,   \* the array
    stored,           \* history: the indexes that values were stored at
    bufLen, bufCap,   \* the buffer that is read into
    asked             \* history: the lengths read() was called with

bvars == <<arrLen, arrCap, stored, bufLen, bufCap, asked>>

BuffersInit ==
    /\ arrLen = 0 /\ arrCap = ArrayCap /\ stored = {}
    /\ bufLen = 0 /\ bufCap = ReadCap /\ asked = {}

\* Mutant of Grown: the buffer grows when it is overfull.
GrownLate(len, cap) == IF len > cap THEN 2 * cap ELSE cap

Grown(len, cap) == IF len >= cap THEN 2 * cap ELSE cap

\* array_push_back: room is made before the value is stored,
PushValue ==
    /\ arrCap <= MaxCap
    /\ arrCap' = Grown(arrLen, arrCap)
    /\ arrLen' = arrLen + 1
    /\ stored' = stored \cup {arrLen}
    /\ UNCHANGED <<bufLen, bufCap, asked>>

\* and file_read_nonblock makes it after it has read.  read() may return any
\* length up to the one it is called with.
ReadSome ==
    /\ bufCap <= MaxCap
    /\ asked' = asked \cup {bufCap - bufLen}
    /\ \E n \in 1 .. bufCap - bufLen :
          bufLen' = bufLen + n /\ bufCap' = Grown(bufLen + n, bufCap)
    /\ UNCHANGED <<arrLen, arrCap, stored>>

\* There is no more to read: the next call has a new buffer.
ReadDone ==
    /\ asked' = asked \cup {bufCap - bufLen}
    /\ bufLen' = 0 /\ bufCap' = ReadCap
    /\ UNCHANGED <<arrLen, arrCap, stored>>

BuffersNext == PushValue \/ ReadSome \/ ReadDone

BuffersSpec == BuffersInit /\ [][BuffersNext]_bvars

----------------------------------------------------------------------------
\* Values are stored within the array only.
StoredWithin == \A i \in stored : i < arrCap

\* read() is never called for nothing, which it would answer with 0, as if
\* the connection had ended; and what was read ends in a byte that was not,
\* which is zero and which http_req_new and the cache take for its end.
RoomToRead == bufLen < bufCap /\ 0 \notin asked

\* No buffer is used behind its end.
BuffersHold == StoredWithin /\ RoomToRead
=============================================================================
