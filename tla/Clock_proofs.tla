---------------------------- MODULE Clock_proofs ----------------------------
(***************************************************************************)
(* The age computed by ms_since is exact to one millisecond and never goes *)
(* back, for any number of milliseconds to the second, nanoseconds to the  *)
(* millisecond, width of unsigned int, timeout and readings of the clock.  *)
(***************************************************************************)
EXTENDS Clock, TLAPS

\* What \div and % say of each other.
LEMMA Division ==
  ASSUME NEW a \in Nat, NEW b \in Nat \ {0}
  PROVE  /\ a \div b \in Nat /\ (a % b) \in Nat
         /\ a = b * (a \div b) + (a % b)
         /\ (a % b) < b
  OBVIOUS

\* A number below the range of unsigned int is kept as it is.
LEMMA NoWrap ==
  ASSUME NEW a \in Nat, NEW b \in Nat \ {0}, a < b
  PROVE  (a % b) = a
  OBVIOUS

\* A common factor can be dropped.
LEMMA LessProduct ==
  ASSUME NEW a \in Int, NEW b \in Int, NEW n \in Nat \ {0}, n * a < n * b
  PROVE  a < b
  OBVIOUS

\* Larger numbers have larger multiples.
LEMMA MoreProduct ==
  ASSUME NEW a \in Int, NEW b \in Int, NEW n \in Nat \ {0}, a <= b
  PROVE  n * a <= n * b
  OBVIOUS

\* Multiples of a difference.
LEMMA Distribution ==
  ASSUME NEW a \in Int, NEW b \in Int, NEW c \in Int
  PROVE  a * (b - c) = a * b - a * c
  OBVIOUS

\* A second has some nanoseconds.
LEMMA Seconds == NsPerSec \in Nat \ {0} /\ NsPerSec = MsPerSec * NsPerMs
  BY ClockAssumption DEF NsPerSec

\* The remainder of C's division is smaller than the divisor and has the sign of the
\* dividend, as has the quotient.
LEMMA Rounding ==
  ASSUME NEW a \in Int, NEW n \in Nat \ {0}
  PROVE  /\ Quotient(a, n) \in Int
         /\ \E r \in Int : /\ a = n * Quotient(a, n) + r /\ -n < r /\ r < n
                           /\ a >= 0 => r >= 0 /\ Quotient(a, n) >= 0
                           /\ a < 0 => r <= 0 /\ Quotient(a, n) <= 0
<1>1. CASE a >= 0
  <2>1. a \in Nat  BY <1>1
  <2>2. PICK q \in Nat, r \in Nat : q = a \div n /\ a = n * q + r /\ r < n
    BY <2>1, Division
  <2>3. Quotient(a, n) = q  BY <1>1, <2>2 DEF Quotient
  <2>4. a = n * Quotient(a, n) + r  BY <2>2, <2>3
  <2>5. r \in Int /\ -n < r /\ r < n /\ r >= 0 /\ q \in Int /\ q >= 0  BY <2>2
  <2> QED  BY <1>1, <2>3, <2>4, <2>5
<1>2. CASE a < 0
  <2>1. -a \in Nat  BY <1>2
  <2>2. PICK q \in Nat, r \in Nat : q = (-a) \div n /\ -a = n * q + r /\ r < n
    BY <2>1, Division
  <2>3. Quotient(a, n) = -q  BY <1>2, <2>2 DEF Quotient
  <2>4. a = n * (-q) + (-r)  BY <2>2
  <2>5. a = n * Quotient(a, n) + (-r)  BY <2>3, <2>4
  <2>6. -r \in Int /\ -n < -r /\ -r < n /\ -r <= 0 /\ -q \in Int /\ -q <= 0  BY <2>2
  <2> QED  BY <1>2, <2>3, <2>5, <2>6
<1> QED  BY <1>1, <1>2

\* A reading of the clock as seconds and nanoseconds.
LEMMA Reading ==
  ASSUME NEW t \in Nat
  PROVE  /\ Timespec(t).tv_sec \in Nat /\ Timespec(t).tv_nsec \in Nat
         /\ t = NsPerSec * Timespec(t).tv_sec + Timespec(t).tv_nsec
         /\ Timespec(t).tv_nsec < NsPerSec
  BY Seconds, Division DEF Timespec

\* The milliseconds from reading u to reading t, with what is lost in the rounding.
LEMMA Milliseconds ==
  ASSUME NEW t \in Nat, NEW u \in Nat, u <= t
  PROVE  \E ms \in Nat, r \in Int, q \in Int :
           /\ ms = Millis(Timespec(t), Timespec(u))
           /\ t - u = NsPerMs * ms + r /\ -NsPerMs < r /\ r < NsPerMs
           /\ ms = (Timespec(t).tv_sec - Timespec(u).tv_sec) * MsPerSec + q
           /\ r > 0 => q >= 0
           /\ r < 0 => q <= 0
<1> DEFINE ms == Millis(Timespec(t), Timespec(u))
<1>1. PICK ts \in Nat, tn \in Nat : ts = Timespec(t).tv_sec /\ tn = Timespec(t).tv_nsec
                                      /\ t = NsPerSec * ts + tn
  BY Reading
<1>2. PICK us \in Nat, un \in Nat : us = Timespec(u).tv_sec /\ un = Timespec(u).tv_nsec
                                      /\ u = NsPerSec * us + un
  BY Reading
<1>3. PICK d \in Int : d = ts - us  OBVIOUS
<1>4. PICK q \in Int, r \in Int : /\ q = Quotient(tn - un, NsPerMs)
                                  /\ tn - un = NsPerMs * q + r /\ -NsPerMs < r /\ r < NsPerMs
                                  /\ r > 0 => q >= 0
                                  /\ r < 0 => q <= 0
  <2>1. tn - un \in Int /\ NsPerMs \in Nat \ {0}  BY ClockAssumption
  <2>2. PICK r \in Int :
          /\ tn - un = NsPerMs * Quotient(tn - un, NsPerMs) + r /\ -NsPerMs < r /\ r < NsPerMs
          /\ tn - un >= 0 => r >= 0 /\ Quotient(tn - un, NsPerMs) >= 0
          /\ tn - un < 0 => r <= 0 /\ Quotient(tn - un, NsPerMs) <= 0
    BY <2>1, Rounding
  <2>3. PICK q \in Int : q = Quotient(tn - un, NsPerMs)  BY <2>1, Rounding
  <2> QED  BY <2>1, <2>2, <2>3
<1>5. ms = d * MsPerSec + q  BY <1>1, <1>2, <1>3, <1>4 DEF Millis
<1>6. ms \in Int /\ d * MsPerSec \in Int  BY <1>5, ClockAssumption
<1>7. t - u = NsPerMs * ms + r
  <2>1. t - u = NsPerSec * d + (tn - un)
    <3>1. NsPerSec * d = NsPerSec * ts - NsPerSec * us  BY <1>3, Seconds, Distribution
    <3>2. NsPerSec * ts \in Int /\ NsPerSec * us \in Int  BY Seconds
    <3> QED  BY <1>1, <1>2, <3>1, <3>2
  <2>2. NsPerSec * d = NsPerMs * (d * MsPerSec)  BY <1>3, Seconds, ClockAssumption
  <2>3. NsPerMs * ms = NsPerMs * (d * MsPerSec) + NsPerMs * q
    BY <1>5, <1>6, ClockAssumption
  <2>4. NsPerMs * (d * MsPerSec) \in Int /\ NsPerMs * q \in Int  BY <1>6, ClockAssumption
  <2> QED  BY <1>4, <2>1, <2>2, <2>3, <2>4
<1>8. ms \in Nat
  <2>1. NsPerMs * (-1) < NsPerMs * ms  BY <1>4, <1>6, <1>7, ClockAssumption
  <2>2. -1 < ms  BY <1>6, <2>1, LessProduct, ClockAssumption
  <2> QED  BY <1>6, <2>2
<1>9. ms = (Timespec(t).tv_sec - Timespec(u).tv_sec) * MsPerSec + q
  BY <1>1, <1>2, <1>3, <1>5
<1> QED  BY <1>4, <1>7, <1>8, <1>9

\* Looking later never gives fewer milliseconds.
LEMMA Monotone ==
  ASSUME NEW t \in Nat, NEW v \in Nat, NEW u \in Nat, u <= t, t <= v
  PROVE  Millis(Timespec(t), Timespec(u)) <= Millis(Timespec(v), Timespec(u))
<1>1. PICK m \in Nat, r \in Int, q \in Int :
        /\ m = Millis(Timespec(t), Timespec(u))
        /\ t - u = NsPerMs * m + r /\ -NsPerMs < r /\ r < NsPerMs
        /\ m = (Timespec(t).tv_sec - Timespec(u).tv_sec) * MsPerSec + q
        /\ r > 0 => q >= 0
        /\ r < 0 => q <= 0
  BY Milliseconds
<1>2. PICK n \in Nat, z \in Int, w \in Int :
        /\ n = Millis(Timespec(v), Timespec(u))
        /\ v - u = NsPerMs * n + z /\ -NsPerMs < z /\ z < NsPerMs
        /\ n = (Timespec(v).tv_sec - Timespec(u).tv_sec) * MsPerSec + w
        /\ z > 0 => w >= 0
        /\ z < 0 => w <= 0
  <2>1. u <= v  OBVIOUS
  <2> QED  BY <2>1, Milliseconds
<1>3. SUFFICES ASSUME n < m PROVE FALSE
  BY <1>1, <1>2
<1>4. NsPerMs * n + NsPerMs <= NsPerMs * m
  <2>1. NsPerMs * (n + 1) <= NsPerMs * m  BY <1>3, MoreProduct, ClockAssumption
  <2> QED  BY <2>1, ClockAssumption
<1>5. r < 0 /\ z > 0
  <2>1. NsPerMs * n \in Int /\ NsPerMs * m \in Int  BY ClockAssumption
  <2> QED  BY <1>1, <1>2, <1>4, <2>1, ClockAssumption
<1>6. PICK a \in Nat, b \in Nat, c \in Nat : a = Timespec(t).tv_sec /\ b = Timespec(v).tv_sec /\ c = Timespec(u).tv_sec
  BY Reading
<1>7. a <= b
  <2>1. PICK tn \in Nat : t = NsPerSec * a + tn  BY <1>6, Reading
  <2>2. PICK vn \in Nat : v = NsPerSec * b + vn /\ vn < NsPerSec  BY <1>6, Reading
  <2>3. NsPerSec * a < NsPerSec * (b + 1)  BY <2>1, <2>2, Seconds
  <2>4. a < b + 1  BY <2>3, LessProduct, Seconds
  <2> QED  BY <2>4
<1>8. MsPerSec * (a - c) <= MsPerSec * (b - c)  BY <1>7, MoreProduct, ClockAssumption
<1>9. m <= MsPerSec * (a - c) /\ MsPerSec * (b - c) <= n
  <2>1. m = MsPerSec * (a - c) + q  BY <1>1, <1>6, ClockAssumption
  <2>2. n = MsPerSec * (b - c) + w  BY <1>2, <1>6, ClockAssumption
  <2>3. MsPerSec * (a - c) \in Int /\ MsPerSec * (b - c) \in Int  BY ClockAssumption
  <2> QED  BY <1>1, <1>2, <1>5, <2>1, <2>2, <2>3
<1>10. MsPerSec * (a - c) \in Int /\ MsPerSec * (b - c) \in Int  BY ClockAssumption
<1> QED  BY <1>3, <1>8, <1>9, <1>10

----------------------------------------------------------------------------

\* The clock was read at the last heartbeat, and not in the future.
ClockInv == now \in Nat /\ \E u \in 0 .. now : last_ping = Timespec(u)

\* ClockInv holds in every reachable state.
THEOREM ClockInvariant == ClockSpec => []ClockInv
<1>1. ClockInit => ClockInv
  BY Seconds DEF ClockInit, ClockInv, get_now
<1>2. ClockInv /\ [ClockNext]_clockVars => ClockInv'
  <2> SUFFICES ASSUME ClockInv, [ClockNext]_clockVars PROVE ClockInv'  OBVIOUS
  <2>1. ASSUME NEW d \in Steps, Advance(d) PROVE ClockInv'
    <3>1. d \in Nat  BY ClockAssumption
    <3> QED  BY <2>1, <3>1 DEF ClockInv, Advance
  <2>2. CASE Ping
    <3>1. last_ping' = Timespec(now) /\ now' = now /\ now \in 0 .. now
      BY <2>2 DEF Ping, get_now, ClockInv
    <3> QED  BY <3>1 DEF ClockInv
  <2>3. CASE UNCHANGED clockVars
    BY <2>3 DEF ClockInv, clockVars
  <2> QED  BY <2>1, <2>2, <2>3 DEF ClockNext
<1> QED  BY <1>1, <1>2, PTL DEF ClockSpec

\* What is known of the age as long as it does not wrap.
LEMMA Age ==
  ASSUME NEW t \in Nat, NEW u \in 0 .. t, t - u < UIntRange * NsPerMs - NsPerMs
  PROVE  LET ms == Millis(Timespec(t), Timespec(u)) IN
           /\ ms \in Nat /\ (ms % UIntRange) = ms
           /\ \E r \in Int : t - u = NsPerMs * ms + r /\ -NsPerMs < r /\ r < NsPerMs
<1>1. PICK ms \in Nat, r \in Int : /\ ms = Millis(Timespec(t), Timespec(u))
                                   /\ t - u = NsPerMs * ms + r /\ -NsPerMs < r /\ r < NsPerMs
  BY Milliseconds
<1>2. UIntRange \in Nat \ {0} /\ NsPerMs \in Nat \ {0}  BY ClockAssumption
<1>3. NsPerMs * ms < NsPerMs * UIntRange
  <2>1. NsPerMs * UIntRange = UIntRange * NsPerMs /\ UIntRange * NsPerMs \in Int
        /\ NsPerMs * ms \in Int
    BY <1>2
  <2> QED  BY <1>1, <1>2, <2>1
<1>4. ms < UIntRange  BY <1>2, <1>3, LessProduct
<1> QED  BY <1>1, <1>2, <1>4, NoWrap

\* Elapsed in terms of the two readings.
LEMMA Difference ==
  ASSUME NEW u \in 0 .. now, now \in Nat, last_ping = Timespec(u)
  PROVE  Elapsed = now - u
<1>1. PICK s \in Nat, n \in Nat : s = last_ping.tv_sec /\ n = last_ping.tv_nsec
                                    /\ u = NsPerSec * s + n
  BY Reading
<1>2. s * NsPerSec = NsPerSec * s  BY Seconds
<1> QED  BY <1>1, <1>2 DEF Elapsed

\* A client is found overdue after its timeout and at most one millisecond later (lines
\* 816-830, 1100), for any constants.
THEOREM DeadlineExact == ClockSpec => []OverdueIsExact
<1>1. ClockInv => OverdueIsExact
  <2> SUFFICES ASSUME ClockInv, Elapsed < UIntRange * NsPerMs - NsPerMs
               PROVE  /\ ms_since(last_ping) > Timeout => Elapsed > Timeout * NsPerMs
                      /\ Elapsed >= (Timeout + 1) * NsPerMs => ms_since(last_ping) > Timeout
    BY DEF OverdueIsExact
  <2>1. PICK u \in 0 .. now : last_ping = Timespec(u)  BY DEF ClockInv
  <2>2. now \in Nat /\ Elapsed = now - u  BY <2>1, Difference DEF ClockInv
  <2>3. PICK ms \in Nat, r \in Int :
          /\ ms = Millis(Timespec(now), Timespec(u)) /\ (ms % UIntRange) = ms
          /\ now - u = NsPerMs * ms + r /\ -NsPerMs < r /\ r < NsPerMs
    BY <2>2, Age
  <2>4. ms_since(last_ping) = ms  BY <2>1, <2>3 DEF ms_since, get_now
  <2>5. /\ NsPerMs * ms \in Int /\ Timeout * NsPerMs \in Int
        /\ NsPerMs * Timeout = Timeout * NsPerMs
        /\ NsPerMs * (Timeout + 1) = Timeout * NsPerMs + NsPerMs
        /\ (Timeout + 1) * NsPerMs = Timeout * NsPerMs + NsPerMs
    BY ClockAssumption
  <2>6. ms > Timeout => now - u > Timeout * NsPerMs
    <3>1. ms > Timeout => NsPerMs * (Timeout + 1) <= NsPerMs * ms
      BY MoreProduct, ClockAssumption
    <3> QED  BY <2>3, <2>5, <3>1, ClockAssumption
  <2>7. now - u >= (Timeout + 1) * NsPerMs => ms > Timeout
    <3>1. now - u >= (Timeout + 1) * NsPerMs => NsPerMs * Timeout < NsPerMs * ms
      BY <2>3, <2>5, ClockAssumption
    <3>2. NsPerMs * Timeout < NsPerMs * ms => Timeout < ms
      BY LessProduct, ClockAssumption
    <3> QED  BY <3>1, <3>2
  <2> QED  BY <2>2, <2>4, <2>6, <2>7
<1> QED  BY <1>1, ClockInvariant, PTL

\* Between two heartbeats the computed age never goes back, for any constants.
THEOREM AgeMonotone == ClockSpec => AgeNeverGoesBack
<1>1. ClockInv /\ ClockInv' /\ [ClockNext]_clockVars => [NeverBackStep]_clockVars
  <2> SUFFICES ASSUME ClockInv, ClockInv', ClockNext, last_ping' = last_ping,
                      Elapsed' < UIntRange * NsPerMs - NsPerMs
               PROVE  ms_since(last_ping)' >= ms_since(last_ping)
    BY DEF NeverBackStep
  <2>1. PICK u \in 0 .. now : last_ping = Timespec(u)  BY DEF ClockInv
  <2>2. PICK v \in Nat : v = now' /\ now <= v /\ now \in Nat
    <3>1. now \in Nat /\ now' \in Nat  BY DEF ClockInv
    <3>2. now <= now'
      BY <3>1, ClockAssumption DEF ClockNext, Advance, Ping
    <3> QED  BY <3>1, <3>2
  <2>3. Elapsed = now - u  BY <2>1, <2>2, Difference
  <2>4. Elapsed' = v - u
    <3>1. PICK s \in Nat, n \in Nat : s = last_ping.tv_sec /\ n = last_ping.tv_nsec
                                        /\ u = NsPerSec * s + n
      BY <2>1, <2>2, Reading
    <3>2. s * NsPerSec = NsPerSec * s  BY Seconds
    <3> QED  BY <2>2, <3>1, <3>2 DEF Elapsed
  <2>5. Millis(Timespec(now), Timespec(u)) <= Millis(Timespec(v), Timespec(u))
    BY <2>1, <2>2, Monotone
  <2>6. (Millis(Timespec(v), Timespec(u)) % UIntRange) = Millis(Timespec(v), Timespec(u))
    BY <2>2, <2>4, Age
  <2>7. (Millis(Timespec(now), Timespec(u)) % UIntRange) = Millis(Timespec(now), Timespec(u))
    <3>1. now - u < UIntRange * NsPerMs - NsPerMs
      <4>1. PICK k \in Int : k = UIntRange * NsPerMs - NsPerMs  BY ClockAssumption
      <4>2. Elapsed' < k  BY <4>1, Zenon
      <4>3. v - u < k  BY <2>4, <4>2, Zenon
      <4>4. u \in Nat /\ now \in Nat /\ now <= v  BY <2>1, <2>2
      <4>5. now - u < k  BY <4>3, <4>4
      <4> QED  BY <4>1, <4>5
    <3> QED  BY <2>2, <3>1, Age
  <2>8. ms_since(last_ping) = Millis(Timespec(now), Timespec(u))
    BY <2>1, <2>7 DEF ms_since, get_now
  <2>9. ms_since(last_ping)' = Millis(Timespec(v), Timespec(u))
    BY <2>1, <2>2, <2>6 DEF ms_since, get_now
  <2> QED  BY <2>5, <2>8, <2>9
<1> QED  BY <1>1, ClockInvariant, PTL DEF ClockSpec, AgeNeverGoesBack

=============================================================================
