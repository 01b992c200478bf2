------------------------------ MODULE Numeric ------------------------------
(***************************************************************************)
(* The remoteposix driver's arithmetic at the edges of its integers: the   *)
(* quota, which saturates at the largest int64, and the mtime of an        *)
(* upload, which is read as decimal seconds and kept as int64 nanoseconds. *)
(* Words have Width bits, and a second Digits decimal places, in place of  *)
(* 64 and 9.                                                               *)
(***************************************************************************)
EXTENDS Integers, Sequences, FiniteSetsExt

CONSTANTS Width, Digits, Seconds, Figures, Counts, Sizes

MaxInt == 2^(Width - 1) - 1
MinInt == -(2^(Width - 1))
Unit == 10^Digits

Uint(x) == x % 2^Width
Int64(x) == IF Uint(x) > MaxInt THEN Uint(x) - 2^Width ELSE Uint(x)

VARIABLES in, out
vars == <<in, out>>

\* a fraction is the figures after the point; Figures has one that is no digit
Letter == 10
Fractions == UNION {[1..k -> Figures] : k \in 0..(Digits + 1)}

\* sec is what ParseInt returns for the seconds, minus that they begin with a minus sign
MtimeInput ==
    {x \in [kind : {"mtime"}, sec : Seconds, minus : BOOLEAN, point : BOOLEAN, fraction : Fractions] :
        /\ x.sec # 0 => (x.minus <=> x.sec < 0)
        /\ ~x.point => x.fraction = <<>>}

QuotaInput == [kind : {"quota"}, used : Counts, blocks : Counts, blockSize : Sizes]

Pending == [ok |-> FALSE, value |-> <<>>]
Rejected == [ok |-> FALSE, value |-> <<0>>]
Answer(v) == [ok |-> TRUE, value |-> v]

Init ==
    /\ in \in MtimeInput \cup QuotaInput
    /\ out = Pending

----------------------------------------------------------------------------
Least(a, b) == IF a < b THEN a ELSE b

QuotaBytesStrict(used, blocks, blockSize) ==
    LET u == Least(used, MaxInt)
        limit == MaxInt - u
        remaining == IF blockSize = 0 \/ blocks < limit \div blockSize THEN Uint(blocks * blockSize) ELSE limit
    IN <<Uint(u + remaining), u, remaining>>

\* total, used and remaining
QuotaBytes(used, blocks, blockSize) ==
    LET u == Least(used, MaxInt)
        limit == MaxInt - u
        remaining == IF blockSize = 0 \/ blocks <= limit \div blockSize THEN Uint(blocks * blockSize) ELSE limit
    IN <<Uint(u + remaining), u, remaining>>

\* the figures, filled up with zeros, as a number
Nanos(fraction) ==
    LET figure(i) == IF i <= Len(fraction) THEN fraction[i] ELSE 0
    IN MapThenSumSet(LAMBDA i : figure(i) * 10^(Digits - i), 1..Digits)

\* time.Unix carries negative nanoseconds over into the seconds
Unix(sec, nanos) == IF nanos < 0 THEN [sec |-> Int64(sec - 1), nsec |-> nanos + Unit]
                    ELSE [sec |-> Int64(sec + nanos \div Unit), nsec |-> nanos % Unit]
UnixNano(t) == Int64(t.sec * Unit + t.nsec)
UnixOfNano(x) == [sec |-> x \div Unit, nsec |-> x % Unit]

\* the sign is that of the text: the seconds of -0.5 are zero
Signed(x, nanos) == IF x.minus THEN -nanos ELSE nanos

WellFormed(x) ==
    x.point => Len(x.fraction) \in 1..Digits /\ \A i \in 1..Len(x.fraction) : x.fraction[i] # Letter

ParseUploadMtime(x) ==
    LET t == Unix(x.sec, IF x.point THEN Signed(x, Nanos(x.fraction)) ELSE 0)
    IN IF ~WellFormed(x) \/ UnixOfNano(UnixNano(t)) # t THEN Rejected ELSE Answer(<<UnixNano(t)>>)

Compute ==
    /\ out = Pending
    /\ out' = IF in.kind = "mtime" THEN ParseUploadMtime(in)
              ELSE Answer(QuotaBytes(in.used, in.blocks, in.blockSize))
    /\ UNCHANGED in

Next == Compute
Spec == Init /\ [][Next]_vars

----------------------------------------------------------------------------
TypeOK ==
    /\ in \in MtimeInput \cup QuotaInput /\ out.ok \in BOOLEAN
    /\ \A i \in 1..Len(out.value) : out.value[i] \in MinInt..MaxInt

(* What is left is what the filesystem has, cut off where the total would  *)
(* leave the int64 that Graph shows, for every used size, count and size   *)
(* of blocks: nothing wraps around on the way.                             *)
QuotaExact ==
    (in.kind = "quota" /\ out.ok) =>
        LET used == Min({in.used, MaxInt})
            left == Min({in.blocks * in.blockSize, MaxInt - used})
        IN out.value = <<used + left, used, left>>

(* An upload's mtime is kept to the last figure, or refused: a well-formed *)
(* time is accepted exactly when its nanoseconds fit, and then they are    *)
(* the number that was written, also between -1 and 0.                     *)
MtimeExact ==
    (in.kind = "mtime" /\ out # Pending) =>
        LET len == Len(in.fraction)
            written == MapThenSumSet(LAMBDA i : in.fraction[i] * 10^(len - i), 1..len)
            sign == IF in.minus THEN -1 ELSE 1
            fits(x) == x \in MinInt..MaxInt
        IN IF WellFormed(in) /\ fits(in.sec * Unit + sign * written * 10^(Digits - len))
           THEN out = Answer(<<in.sec * Unit + sign * written * 10^(Digits - len)>>)
           ELSE out = Rejected
=============================================================================
