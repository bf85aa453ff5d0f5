------------------------- MODULE ParseConfig_proofs -------------------------
(***************************************************************************)
(* Proofs about ParseConfig: the one pass of parse_config over a file of   *)
(* any length, with any pieces, agrees with what the file says as a whole. *)
(***************************************************************************)
EXTENDS ParseConfig, ClientTable_proofs, FiniteSetTheorems

----------------------------------------------------------------------------
(* The inductive invariant *)

\* A set of places in the file has a last one; that is not obvious to LastOf.
HasLast(S) == S = {} \/ \E i \in S : \A j \in S : j <= i

LastsKnown ==
  /\ \A key \in Keys : HasLast(Pairs(key))
  /\ \A i \in Sections : HasLast(TimeoutsIn(i))

\* There are n sections, and pos[m] is the place of the m-th.
Ordered(pos, n) ==
  /\ \A m \in 1 .. n : pos[m] \in Sections
  /\ \A i \in Sections : \E m \in 1 .. n : pos[m] = i
  /\ \A m, k \in 1 .. n : m < k => pos[m] < pos[k]

\* n clientIDs, the m-th of them drawn after m - 1 others.
IDLists(n) == {ids \in [1 .. n -> 1 .. n] : \A m \in 1 .. n : ids[m] \in make_clientID(m - 1)}

Announced(pos, ids, n) ==
  [s \in Slots |-> IF s <= n THEN AnnouncedClient(SectionAt(pos[s]), ids[s]) ELSE EmptyClient]

OptsSaid ==
  [socket_path |-> Word("socket_path", "default"),
   wd_timeout_s |-> Value("wd_timeout_s", 10),
   reboot_timeout_s |-> Value("reboot_timeout_s", 60)]

\* What the loop has made of the file so far, if it goes on.
ReadInv ==
  /\ client_idx + 1 \in 0 .. MaxClients /\ issued = client_idx + 1
  /\ \A i \in DOMAIN file : WellFormed(i)
  /\ LastsKnown
  /\ config = Settings /\ opts = OptsSaid
  /\ \E pos \in [1 .. client_idx + 1 -> Sections], ids \in IDLists(client_idx + 1) :
       /\ Ordered(pos, client_idx + 1)
       /\ clients = Announced(pos, ids, client_idx + 1)

Rejected == ~((\A i \in DOMAIN file : WellFormed(i)) /\ AcceptedConfig(Settings, SectionList))

ConfigInv ==
  /\ file \in Seq(Piece) /\ client_idx \in Int
  /\ status \in {"reading", "accepted", "fatal"}
  /\ status # "fatal" => ReadInv
  /\ status = "accepted" => AcceptedConfig(Settings, SectionList)
  /\ status = "fatal" => Rejected

----------------------------------------------------------------------------
(* Reading one more piece *)

\* What is needed of a file that is read on by a piece.
Reads(l) == file \in Seq(Piece) /\ l \in Piece /\ file' = Append(file, l)

New == Len(file) + 1

IsSection(l) == l.kind = "section" /\ ~IsPair(l)

\* The fields of a pair.
LEMMA PairFields ==
  ASSUME NEW l \in Piece, IsPair(l)
  PROVE  /\ KeyOf(l) \in Keys
         /\ KeyOf(l) # "other" => l.kind = "pair" /\ l.val \in Ints /\ l.key = KeyOf(l)
         /\ ~IsSection(l)
BY DEF Piece, IsPair, KeyOf, Keys, IsSection

\* The pieces read before stay where they are.
LEMMA FileGrows ==
  ASSUME NEW l, Reads(l)
  PROVE  /\ file' \in Seq(Piece) /\ Len(file) \in Nat /\ New \in Nat /\ Len(file') = New
         /\ DOMAIN file = 1 .. Len(file) /\ DOMAIN file' = DOMAIN file \cup {New}
         /\ file'[New] = l /\ New \notin DOMAIN file
         /\ \A i \in DOMAIN file : file'[i] = file[i] /\ i \in Nat /\ i < New
BY DEF Reads, New

\* The pairs with a key.
LEMMA PairsGrow ==
  ASSUME NEW l, Reads(l), NEW key
  PROVE  /\ Pairs(key) \subseteq DOMAIN file
         /\ Pairs(key)' = IF IsPair(l) /\ KeyOf(l) = key THEN Pairs(key) \cup {New} ELSE Pairs(key)
<1>1. /\ DOMAIN file' = DOMAIN file \cup {New} /\ file'[New] = l /\ New \notin DOMAIN file
      /\ \A i \in DOMAIN file : file'[i] = file[i]
  BY FileGrows
<1>2. Pairs(key)' = {i \in DOMAIN file' : IsPair(file'[i]) /\ KeyOf(file'[i]) = key}
  BY DEF Pairs
<1> QED BY <1>1, <1>2 DEF Pairs

\* The sections.
LEMMA SectionsGrow ==
  ASSUME NEW l, Reads(l)
  PROVE  /\ Sections \subseteq DOMAIN file
         /\ Sections' = IF IsSection(l) THEN Sections \cup {New} ELSE Sections
<1>1. /\ DOMAIN file' = DOMAIN file \cup {New} /\ file'[New] = l /\ New \notin DOMAIN file
      /\ \A i \in DOMAIN file : file'[i] = file[i]
  BY FileGrows
<1>2. Sections' = {i \in DOMAIN file' : file'[i].kind = "section" /\ ~IsPair(file'[i])}
  BY DEF Sections
<1> QED BY <1>1, <1>2 DEF Sections, IsSection

\* A piece is well-formed or not, whatever follows it.
LEMMA FormStays ==
  ASSUME NEW l, Reads(l), NEW i \in DOMAIN file
  PROVE  WellFormed(i)' <=> WellFormed(i)
<1>1. file'[i] = file[i] /\ i \in Nat /\ i < New /\ New \in Nat
  BY FileGrows
<1>2. (\E j \in Sections' : j < i) <=> (\E j \in Sections : j < i)
  BY <1>1, SectionsGrow
<1> QED BY <1>1, <1>2 DEF WellFormed

\* The last place of a set, if there is one, is in it.
LEMMA LastIn ==
  ASSUME NEW S, HasLast(S), S # {}
  PROVE  LastOf(S) \in S
BY DEF HasLast, LastOf

\* A place behind all others is the last.
LEMMA LastAdded ==
  ASSUME NEW S \in SUBSET Nat, NEW n \in Nat, \A j \in S : j < n
  PROVE  LastOf(S \cup {n}) = n /\ HasLast(S \cup {n}) /\ S \cup {n} # {}
<1>1. n \in S \cup {n} /\ \A j \in S \cup {n} : j <= n
  OBVIOUS
<1>2. ASSUME NEW i \in S \cup {n}, \A j \in S \cup {n} : j <= i PROVE i = n
  BY <1>2
<1> QED BY <1>1, <1>2 DEF LastOf, HasLast

\* The last value given for a key.
LEMMA ValueRead ==
  ASSUME NEW l, Reads(l), NEW key, HasLast(Pairs(key)), NEW d
  PROVE  /\ HasLast(Pairs(key))'
         /\ Word(key, d)' = IF IsPair(l) /\ KeyOf(l) = key THEN l.word ELSE Word(key, d)
         /\ Value(key, d)' = IF IsPair(l) /\ KeyOf(l) = key THEN l.val ELSE Value(key, d)
<1>1. /\ file'[New] = l /\ New \in Nat
      /\ \A i \in DOMAIN file : file'[i] = file[i] /\ i \in Nat /\ i < New
  BY FileGrows
<1>2. /\ Pairs(key) \subseteq DOMAIN file /\ Pairs(key) \in SUBSET Nat
      /\ \A j \in Pairs(key) : j < New
  BY <1>1, PairsGrow
<1>3. CASE IsPair(l) /\ KeyOf(l) = key
  <2>1. Pairs(key)' = Pairs(key) \cup {New}
    BY <1>3, PairsGrow
  <2>2. Pairs(key)' # {} /\ LastOf(Pairs(key)') = New /\ HasLast(Pairs(key)')
    BY <1>1, <1>2, <2>1, LastAdded
  <2> QED BY <1>1, <1>3, <2>2 DEF Word, Value, HasLast, LastOf
<1>4. CASE ~(IsPair(l) /\ KeyOf(l) = key)
  <2>1. Pairs(key)' = Pairs(key)
    BY <1>4, PairsGrow
  <2>2. Pairs(key) # {} => file'[LastOf(Pairs(key))] = file[LastOf(Pairs(key))]
    BY <1>1, <1>2, LastIn
  <2> QED BY <1>4, <2>1, <2>2 DEF Word, Value, HasLast, LastOf
<1> QED BY <1>3, <1>4

\* The timeouts given in a section.
LEMMA TimeoutsGrow ==
  ASSUME NEW l, Reads(l), NEW i \in Sections
  PROVE  /\ TimeoutsIn(i) \subseteq DOMAIN file
         /\ TimeoutsIn(i)' =
              IF IsPair(l) /\ KeyOf(l) = "timeout_ms" /\ (\A j \in Sections : j <= i)
                THEN TimeoutsIn(i) \cup {New} ELSE TimeoutsIn(i)
<1>1. /\ New \in Nat /\ Sections \subseteq DOMAIN file
      /\ \A k \in DOMAIN file : k \in Nat /\ k < New
  BY FileGrows, SectionsGrow
<1>2. TimeoutsIn(i) \subseteq DOMAIN file
  BY PairsGrow DEF TimeoutsIn
<1>3. ASSUME NEW k \in DOMAIN file
      PROVE  (\A j \in Sections' : j < k => j <= i) <=> (\A j \in Sections : j < k => j <= i)
  BY <1>1, SectionsGrow
<1>4. ASSUME IsPair(l), l \in Piece
      PROVE  (\A j \in Sections' : j < New => j <= i) <=> (\A j \in Sections : j <= i)
  <2>1. Sections' = Sections
    BY <1>4, SectionsGrow, PairFields
  <2> QED BY <1>1, <2>1
<1>5. TimeoutsIn(i)' = {k \in Pairs("timeout_ms")' : k > i /\ \A j \in Sections' : j < k => j <= i}
  BY DEF TimeoutsIn
<1>6. Pairs("timeout_ms") \subseteq DOMAIN file
  BY PairsGrow
<1>7. i \in Nat /\ New > i
  BY <1>1
<1>8. CASE ~(IsPair(l) /\ KeyOf(l) = "timeout_ms")
  <2>1. Pairs("timeout_ms")' = Pairs("timeout_ms")
    BY <1>8, PairsGrow
  <2> QED BY <1>2, <1>3, <1>5, <1>6, <1>8, <2>1 DEF TimeoutsIn
<1>9. CASE IsPair(l) /\ KeyOf(l) = "timeout_ms"
  <2>1. Pairs("timeout_ms")' = Pairs("timeout_ms") \cup {New}
    BY <1>9, PairsGrow
  <2>2. (\A j \in Sections' : j < New => j <= i) <=> (\A j \in Sections : j <= i)
    BY <1>4, <1>9 DEF Reads
  <2> QED BY <1>2, <1>3, <1>5, <1>6, <1>7, <1>9, <2>1, <2>2 DEF TimeoutsIn
<1> QED BY <1>8, <1>9

\* What is said of a section that has been begun.
LEMMA SectionRead ==
  ASSUME NEW l, Reads(l), NEW i \in Sections, HasLast(TimeoutsIn(i))
  PROVE  /\ HasLast(TimeoutsIn(i))'
         /\ SectionAt(i)' =
              IF IsPair(l) /\ KeyOf(l) = "timeout_ms" /\ (\A j \in Sections : j <= i)
                THEN [name |-> file[i].name, timeout_ms |-> l.val] ELSE SectionAt(i)
<1>1. /\ file'[New] = l /\ New \in Nat
      /\ \A k \in DOMAIN file : file'[k] = file[k] /\ k \in Nat /\ k < New
  BY FileGrows
<1>2. /\ TimeoutsIn(i) \subseteq DOMAIN file /\ TimeoutsIn(i) \in SUBSET Nat
      /\ \A j \in TimeoutsIn(i) : j < New
  BY <1>1, TimeoutsGrow
<1>3. file'[i].name = file[i].name
  BY <1>1, SectionsGrow
<1>4. CASE IsPair(l) /\ KeyOf(l) = "timeout_ms" /\ (\A j \in Sections : j <= i)
  <2>1. TimeoutsIn(i)' = TimeoutsIn(i) \cup {New}
    BY <1>4, TimeoutsGrow
  <2>2. TimeoutsIn(i)' # {} /\ LastOf(TimeoutsIn(i)') = New /\ HasLast(TimeoutsIn(i)')
    BY <1>1, <1>2, <2>1, LastAdded
  <2> QED BY <1>1, <1>3, <1>4, <2>2 DEF SectionAt, HasLast, LastOf
<1>5. CASE ~(IsPair(l) /\ KeyOf(l) = "timeout_ms" /\ (\A j \in Sections : j <= i))
  <2>1. TimeoutsIn(i)' = TimeoutsIn(i)
    BY <1>5, TimeoutsGrow
  <2>2. TimeoutsIn(i) # {} => file'[LastOf(TimeoutsIn(i))] = file[LastOf(TimeoutsIn(i))]
    BY <1>1, <1>2, LastIn
  <2> QED BY <1>3, <1>5, <2>1, <2>2 DEF SectionAt, HasLast, LastOf
<1> QED BY <1>4, <1>5

\* What is said of a section that begins.
LEMMA SectionBegun ==
  ASSUME NEW l, Reads(l), IsSection(l), NEW n, n = New
  PROVE  /\ HasLast(TimeoutsIn(n))'
         /\ SectionAt(n)' = [name |-> l.name, timeout_ms |-> DefaultTimeout]
<1>1. /\ file'[n] = l /\ n \in Nat
      /\ \A k \in DOMAIN file : k \in Nat /\ k < n
  BY FileGrows
<1>2. Pairs("timeout_ms")' \subseteq DOMAIN file
  BY PairsGrow DEF IsSection
<1>3. TimeoutsIn(n)' = {}
  BY <1>1, <1>2 DEF TimeoutsIn
<1> QED BY <1>1, <1>3 DEF SectionAt, HasLast

----------------------------------------------------------------------------
(* Numbers and counting *)

\* A number as atoi reads it is in range as an unsigned one if it is in range as it stands,
\* and then the conversion leaves it alone.
LEMMA InRange ==
  ASSUME NEW v \in Ints
  PROVE  /\ TimeoutInRange(UInt(v)) <=> v \in TimeoutMin .. TimeoutMax
         /\ TimeoutInRange(UInt(v)) => UInt(v) = v
<1>1. PICK half \in Nat : half = UIntRange \div 2 /\ 2 * half <= UIntRange /\ TimeoutMax < half
  BY TableAssumption, ConfigAssumption
<1>2. v \in Int /\ -half <= v /\ v < half
  BY <1>1 DEF Ints
<1>3. CASE v >= 0
  <2>1. UInt(v) = v
    BY <1>1, <1>2, <1>3, TableAssumption DEF UInt
  <2> QED BY <1>2, <2>1, TableAssumption DEF TimeoutInRange
<1>4. CASE v < 0
  <2>1. UInt(v) = v + UIntRange
    BY <1>1, <1>2, <1>4, TableAssumption DEF UInt
  <2> QED BY <1>1, <1>2, <1>4, <2>1, TableAssumption DEF TimeoutInRange
<1> QED BY <1>2, <1>3, <1>4

\* What the whole file lists as its sections are the n places in pos.
LEMMA SectionsCounted ==
  ASSUME file \in Seq(Piece), NEW n \in Nat, NEW pos \in [1 .. n -> Sections], Ordered(pos, n)
  PROVE  SectionList = [m \in 1 .. n |-> SectionAt(pos[m])]
<1>1. \A i \in Sections : i \in Nat
  BY DEF Sections
<1>2. \A m, k \in 1 .. n : pos[m] <= pos[k] <=> m <= k
  BY <1>1 DEF Ordered
<1>3. \A m, k \in 1 .. n : pos[m] = pos[k] => m = k
  BY <1>1, <1>2
<1>4. ASSUME NEW m \in 0 .. n, NEW S, S = {j \in Sections : \E k \in 1 .. m : j = pos[k]}
      PROVE  Cardinality(S) = m
  <2> DEFINE b == [k \in 1 .. m |-> pos[k]]
  <2>1. m \in Nat /\ \A k \in 1 .. m : k \in 1 .. n
    OBVIOUS
  <2>2. b \in [1 .. m -> S]
    BY <1>4, <2>1
  <2>3. \A j \in S : \E k \in 1 .. m : b[k] = j
    BY <1>4
  <2>4. \A k, h \in 1 .. m : b[k] = b[h] => k = h
    BY <1>3, <2>1
  <2>5. b \in Bijection(1 .. m, S)
    <3> HIDE DEF b
    <3> QED BY <2>2, <2>3, <2>4 DEF Bijection, Injection, Surjection, IsInjective
  <2>6. ExistsBijection(1 .. m, S)
    BY <2>5 DEF ExistsBijection
  <2> QED BY <2>1, <2>6, FS_CountingElements
<1>5. Cardinality(Sections) = n
  <2>1. Sections = {j \in Sections : \E k \in 1 .. n : j = pos[k]}
    BY DEF Ordered
  <2> QED BY <1>4, <2>1
<1>6. ASSUME NEW m \in 1 .. n PROVE Before(pos[m]) = m
  <2>1. \A j \in Sections : j <= pos[m] <=> \E k \in 1 .. m : j = pos[k]
    BY <1>2 DEF Ordered
  <2>2. {j \in Sections : j <= pos[m]} = {j \in Sections : \E k \in 1 .. m : j = pos[k]}
    BY <2>1
  <2>3. m \in 0 .. n
    OBVIOUS
  <2> QED BY <1>4, <2>2, <2>3 DEF Before
<1>7. ASSUME NEW m \in 1 .. n PROVE (CHOOSE i \in Sections : Before(i) = m) = pos[m]
  <2>1. pos[m] \in Sections /\ Before(pos[m]) = m
    BY <1>6
  <2>2. ASSUME NEW i \in Sections, Before(i) = m PROVE i = pos[m]
    <3>1. PICK k \in 1 .. n : pos[k] = i
      BY DEF Ordered
    <3> QED BY <1>6, <2>2, <3>1
  <2> QED BY <2>1, <2>2
<1> DEFINE Place(m) == CHOOSE i \in Sections : Before(i) = m
<1>8. SectionList = [m \in 1 .. Cardinality(Sections) |-> SectionAt(Place(m))]
  BY DEF SectionList
<1>9. \A m \in 1 .. n : Place(m) = pos[m]
  BY <1>7
<1> HIDE DEF Place
<1> QED BY <1>5, <1>8, <1>9

\* SectionsCounted, as a formula that holds before and after a step.
Counting ==
  file \in Seq(Piece) =>
    \A n \in Nat : \A pos \in [1 .. n -> Sections] :
       Ordered(pos, n) => SectionList = [m \in 1 .. n |-> SectionAt(pos[m])]

\* The whole file lists its sections in the order of their places, whatever is read.
LEMMA SectionsAlwaysCounted == Counting
BY SectionsCounted DEF Counting

----------------------------------------------------------------------------
(* What the whole file says, one piece later *)

\* A piece that may come next.
Good(l) ==
  IF IsPair(l)
    THEN \/ KeyOf(l) = "socket_path"
         \/ KeyOf(l) = "wd_timeout_s" /\ l.val \in WdTimeouts
         \/ KeyOf(l) = "reboot_timeout_s" /\ l.val \in RebootTimeouts
         \/ KeyOf(l) \in {"strict_clients", "unique_clients"} /\ l.word \in {"true", "false"}
         \/ KeyOf(l) = "timeout_ms" /\ l.val \in TimeoutMin .. TimeoutMax /\ Sections # {}
    ELSE l.kind # "garbage" /\ (l.kind = "section" => l.form # "extra")

AllFormed == \A i \in DOMAIN file : WellFormed(i)

\* The file stays well-formed if the piece may come next.
LEMMA FormRead ==
  ASSUME NEW l, Reads(l)
  PROVE  AllFormed' <=> AllFormed /\ Good(l)
<1>1. PICK n \in Nat : n = New
  BY FileGrows
<1>2. /\ DOMAIN file' = DOMAIN file \cup {n} /\ file'[n] = l
      /\ \A i \in DOMAIN file : i \in Nat /\ i < n
  BY <1>1, FileGrows
<1>3. (\E j \in Sections' : j < n) <=> Sections # {}
  <2>1. Sections \subseteq DOMAIN file /\ Sections' \subseteq Sections \cup {n} /\ Sections \subseteq Sections'
    BY <1>1, SectionsGrow
  <2> QED BY <1>2, <2>1
<1>4. WellFormed(n)' <=> Good(l)
  BY <1>2, <1>3 DEF WellFormed, Good, WdTimeouts, RebootTimeouts
<1>5. \A i \in DOMAIN file : WellFormed(i)' <=> WellFormed(i)
  BY FormStays
<1>6. AllFormed' <=> \A i \in DOMAIN file' : WellFormed(i)'
  BY DEF AllFormed
<1>7. AllFormed <=> \A i \in DOMAIN file : WellFormed(i)
  BY DEF AllFormed
<1> QED BY <1>2, <1>4, <1>5, <1>6, <1>7

\* A file with a piece that may not come next is never accepted.
LEMMA BadIsRejected ==
  ASSUME NEW l, Reads(l), ~Good(l)
  PROVE  Rejected'
BY FormRead DEF Rejected, AllFormed

\* Every set that is asked for its last place has one.
LEMMA LastsRead ==
  ASSUME NEW l, Reads(l), LastsKnown
  PROVE  LastsKnown'
<1>1. ASSUME NEW key \in Keys PROVE HasLast(Pairs(key))'
  BY ValueRead DEF LastsKnown
<1>2. ASSUME NEW i \in Sections' PROVE HasLast(TimeoutsIn(i))'
  <2>1. CASE i \in Sections
    BY <2>1, SectionRead DEF LastsKnown
  <2>2. CASE i \notin Sections
    BY <2>2, SectionsGrow, SectionBegun
  <2> QED BY <2>1, <2>2
<1> QED BY <1>1, <1>2 DEF LastsKnown

\* The options, the piece read last included.
LEMMA OptionsRead ==
  ASSUME NEW l, Reads(l), LastsKnown
  PROVE  /\ Settings' =
              [strict_clients |-> IF IsPair(l) /\ KeyOf(l) = "strict_clients" THEN l.word = "true"
                                  ELSE Settings.strict_clients,
               unique_clients |-> IF IsPair(l) /\ KeyOf(l) = "unique_clients" THEN l.word = "true"
                                  ELSE Settings.unique_clients]
         /\ OptsSaid' =
              [socket_path |-> IF IsPair(l) /\ KeyOf(l) = "socket_path" THEN l.word
                               ELSE OptsSaid.socket_path,
               wd_timeout_s |-> IF IsPair(l) /\ KeyOf(l) = "wd_timeout_s" THEN l.val
                                ELSE OptsSaid.wd_timeout_s,
               reboot_timeout_s |-> IF IsPair(l) /\ KeyOf(l) = "reboot_timeout_s" THEN l.val
                                    ELSE OptsSaid.reboot_timeout_s]
<1>1. \A key \in {"socket_path", "wd_timeout_s", "reboot_timeout_s", "strict_clients",
                  "unique_clients"} : HasLast(Pairs(key))
  BY DEF LastsKnown, Keys
<1>2. Word("strict_clients", "false")' = IF IsPair(l) /\ KeyOf(l) = "strict_clients" THEN l.word
                                         ELSE Word("strict_clients", "false")
  BY <1>1, ValueRead
<1>3. Word("unique_clients", "false")' = IF IsPair(l) /\ KeyOf(l) = "unique_clients" THEN l.word
                                         ELSE Word("unique_clients", "false")
  BY <1>1, ValueRead
<1>4. Word("socket_path", "default")' = IF IsPair(l) /\ KeyOf(l) = "socket_path" THEN l.word
                                        ELSE Word("socket_path", "default")
  BY <1>1, ValueRead
<1>5. Value("wd_timeout_s", 10)' = IF IsPair(l) /\ KeyOf(l) = "wd_timeout_s" THEN l.val
                                   ELSE Value("wd_timeout_s", 10)
  BY <1>1, ValueRead
<1>6. Value("reboot_timeout_s", 60)' = IF IsPair(l) /\ KeyOf(l) = "reboot_timeout_s" THEN l.val
                                       ELSE Value("reboot_timeout_s", 60)
  BY <1>1, ValueRead
<1>7. Settings' =
        [strict_clients |-> IF IsPair(l) /\ KeyOf(l) = "strict_clients" THEN l.word = "true"
                            ELSE Settings.strict_clients,
         unique_clients |-> IF IsPair(l) /\ KeyOf(l) = "unique_clients" THEN l.word = "true"
                            ELSE Settings.unique_clients]
  BY <1>2, <1>3 DEF Settings
<1> QED BY <1>4, <1>5, <1>6, <1>7 DEF OptsSaid

\* A piece that is no section leaves the sections where they are.
LEMMA OrderKept ==
  ASSUME NEW l, Reads(l), ~IsSection(l), NEW n, NEW pos, Ordered(pos, n)
  PROVE  Sections' = Sections /\ Ordered(pos, n)'
BY SectionsGrow DEF Ordered

\* Without a timeout, they also say the same.
LEMMA SectionsKept ==
  ASSUME NEW l, Reads(l), ~IsSection(l), ~(IsPair(l) /\ KeyOf(l) = "timeout_ms"), LastsKnown,
         NEW n \in Nat, NEW pos, NEW ids, Ordered(pos, n)
  PROVE  Announced(pos, ids, n)' = Announced(pos, ids, n)
<1>1. ASSUME NEW m \in 1 .. n PROVE SectionAt(pos[m])' = SectionAt(pos[m])
  <2>1. pos[m] \in Sections /\ HasLast(TimeoutsIn(pos[m]))
    BY DEF Ordered, LastsKnown
  <2> QED BY <2>1, SectionRead
<1> QED BY <1>1 DEF Announced, Slots

\* Another timeout in a section is another timeout in its client.
LEMMA ClientTimeout ==
  ASSUME NEW a, NEW v, NEW id
  PROVE  AnnouncedClient([name |-> a.name, timeout_ms |-> v], id) =
           [AnnouncedClient(a, id) EXCEPT !.timeout_ms = v]
BY DEF AnnouncedClient, EmptyClient

\* A timeout is said of the last section, and of no other.
LEMMA TimeoutRead ==
  ASSUME NEW l, Reads(l), IsPair(l), KeyOf(l) = "timeout_ms", LastsKnown,
         NEW n \in Slots, NEW pos, NEW ids, Ordered(pos, n)
  PROVE  Announced(pos, ids, n)' = [Announced(pos, ids, n) EXCEPT ![n].timeout_ms = l.val]
<1>1. n \in Nat /\ n \in 1 .. n /\ n <= n /\ \A i \in Sections : i \in Nat
  BY FileGrows, SectionsGrow, TableAssumption DEF Slots
<1>2. \A m \in 1 .. n : (\A j \in Sections : j <= pos[m]) <=> m = n
  BY <1>1 DEF Ordered
<1>3. ASSUME NEW m \in 1 .. n
      PROVE  SectionAt(pos[m])' =
               IF m = n THEN [name |-> file[pos[m]].name, timeout_ms |-> l.val] ELSE SectionAt(pos[m])
  <2>1. pos[m] \in Sections /\ HasLast(TimeoutsIn(pos[m]))
    BY DEF Ordered, LastsKnown
  <2> QED BY <1>2, <2>1, SectionRead
<1>4. SectionAt(pos[n]).name = file[pos[n]].name
  BY DEF SectionAt
<1>5. AnnouncedClient(SectionAt(pos[n]), ids[n])' =
        [AnnouncedClient(SectionAt(pos[n]), ids[n]) EXCEPT !.timeout_ms = l.val]
  <2>1. SectionAt(pos[n])' = [name |-> SectionAt(pos[n]).name, timeout_ms |-> l.val]
    BY <1>1, <1>3, <1>4
  <2>2. AnnouncedClient(SectionAt(pos[n]), ids[n])' =
          AnnouncedClient([name |-> SectionAt(pos[n]).name, timeout_ms |-> l.val], ids[n])
    BY <2>1 DEF AnnouncedClient, EmptyClient
  <2> QED BY <2>2, ClientTimeout
<1>6. ASSUME NEW s \in Slots, s # n, s <= n
      PROVE  AnnouncedClient(SectionAt(pos[s]), ids[s])' = AnnouncedClient(SectionAt(pos[s]), ids[s])
  <2>1. s \in 1 .. n
    BY <1>1, <1>6 DEF Slots
  <2>2. SectionAt(pos[s])' = SectionAt(pos[s])
    BY <1>3, <1>6, <2>1
  <2> QED BY <2>2 DEF AnnouncedClient, EmptyClient
<1>7. Announced(pos, ids, n)[n] = AnnouncedClient(SectionAt(pos[n]), ids[n])
  BY <1>1 DEF Announced
<1> QED BY <1>1, <1>5, <1>6, <1>7 DEF Announced

\* A list of n places or IDs, with one more.
Longer(f, n, x) == [m \in 1 .. n + 1 |-> IF m = n + 1 THEN x ELSE f[m]]

\* One more ID.
LEMMA IDDrawn ==
  ASSUME NEW n \in Nat, NEW ids \in IDLists(n), NEW id \in make_clientID(n)
  PROVE  Longer(ids, n, id) \in IDLists(n + 1)
<1>1. PICK drawn : drawn = Longer(ids, n, id)
  OBVIOUS
<1>2. drawn[n + 1] = id /\ \A m \in 1 .. n : drawn[m] = ids[m]
  BY <1>1 DEF Longer
<1>3. id \in 1 .. n + 1 /\ \A m \in 1 .. n + 1 : m = n + 1 \/ m \in 1 .. n
  BY DEF make_clientID
<1>4. \A m \in 1 .. n : ids[m] \in 1 .. n + 1 /\ ids[m] \in make_clientID(m - 1)
  BY DEF IDLists
<1>5. drawn \in [1 .. n + 1 -> 1 .. n + 1]
  BY <1>1, <1>3, <1>4 DEF Longer
<1>6. (n + 1) - 1 = n
  OBVIOUS
<1>7. \A m \in 1 .. n + 1 : drawn[m] \in make_clientID(m - 1)
  BY <1>2, <1>3, <1>4, <1>6
<1>8. drawn \in IDLists(n + 1)
  BY <1>5, <1>7 DEF IDLists
<1> QED BY <1>1, <1>8

\* A section is listed behind the others.
LEMMA SectionListed ==
  ASSUME NEW l, Reads(l), IsSection(l), LastsKnown,
         NEW n \in Nat, NEW pos \in [1 .. n -> Sections], Ordered(pos, n),
         NEW new, new = Longer(pos, n, New), NEW ids, NEW id, NEW drawn, drawn = Longer(ids, n, id)
  PROVE  /\ new \in [1 .. n + 1 -> Sections'] /\ Ordered(new, n + 1)'
         /\ n + 1 \in Slots =>
              Announced(new, drawn, n + 1)' =
                [Announced(pos, ids, n) EXCEPT
                   ![n + 1] = AnnouncedClient([name |-> l.name, timeout_ms |-> DefaultTimeout], id)]
<1>1. PICK i : i = New
  OBVIOUS
<1>2. /\ Sections' = Sections \cup {i} /\ i \in Nat
      /\ \A j \in Sections : j \in Nat /\ j < i
  BY <1>1, FileGrows, SectionsGrow
<1>3. new \in [1 .. n + 1 -> Sections'] /\ new[n + 1] = i /\ \A m \in 1 .. n : new[m] = pos[m]
  BY <1>2, <1>1 DEF Longer
<1>4. drawn[n + 1] = id /\ \A m \in 1 .. n : drawn[m] = ids[m]
  BY DEF Longer
<1>5. Ordered(new, n + 1)'
  <2>1. \A m \in 1 .. n + 1 : m = n + 1 \/ m \in 1 .. n
    OBVIOUS
  <2>2. \A m \in 1 .. n + 1 : new[m] \in Sections'
    BY <1>3
  <2>3. \A j \in Sections' : \E m \in 1 .. n + 1 : new[m] = j
    BY <1>2, <1>3 DEF Ordered
  <2>4. \A m, k \in 1 .. n + 1 : m < k => new[m] < new[k]
    <3>1. ASSUME NEW m \in 1 .. n + 1, NEW k \in 1 .. n + 1, m < k PROVE new[m] < new[k]
      <4>1. m \in 1 .. n /\ new[m] = pos[m] /\ pos[m] \in Sections
        BY <1>3, <3>1
      <4>2. CASE k = n + 1
        BY <1>2, <1>3, <4>1, <4>2
      <4>3. CASE k \in 1 .. n
        BY <1>3, <3>1, <4>1, <4>3 DEF Ordered
      <4> QED BY <2>1, <4>2, <4>3
    <3> QED BY <3>1
  <2> QED BY <2>2, <2>3, <2>4 DEF Ordered
<1>6. ASSUME n + 1 \in Slots
      PROVE  Announced(new, drawn, n + 1)' =
               [Announced(pos, ids, n) EXCEPT
                  ![n + 1] = AnnouncedClient([name |-> l.name, timeout_ms |-> DefaultTimeout], id)]
  <2>1. ASSUME NEW m \in 1 .. n PROVE SectionAt(new[m])' = SectionAt(pos[m])
    <3>1. pos[m] \in Sections /\ HasLast(TimeoutsIn(pos[m])) /\ new[m] = pos[m] /\ ~IsPair(l)
      BY <1>3 DEF Ordered, LastsKnown, IsSection
    <3>2. SectionAt(pos[m])' = SectionAt(pos[m])
      BY <3>1, SectionRead
    <3> QED BY <3>1, <3>2
  <2>2. SectionAt(new[n + 1])' = [name |-> l.name, timeout_ms |-> DefaultTimeout]
    BY <1>3, <1>1, SectionBegun
  <2>3. \A s \in Slots : s <= n + 1 <=> s = n + 1 \/ s <= n
    BY DEF Slots
  <2>4. \A s \in Slots : s <= n => s \in 1 .. n /\ s # n + 1
    BY DEF Slots
  <2>5. Announced(new, drawn, n + 1)' =
          [s \in Slots |-> IF s = n + 1 THEN AnnouncedClient([name |-> l.name, timeout_ms |-> DefaultTimeout], id)
                           ELSE IF s <= n THEN AnnouncedClient(SectionAt(pos[s]), ids[s]) ELSE EmptyClient]
    BY <1>4, <2>1, <2>2, <2>3, <2>4 DEF Announced, AnnouncedClient, EmptyClient, Slots
  <2> QED BY <1>6, <2>5 DEF Announced
<1> QED BY <1>3, <1>5, <1>6

----------------------------------------------------------------------------
(* One turn of the loop *)

\* The loop is about to take l.
Taking(l) == ConfigInv /\ status = "reading" /\ Reads(l)

\* client_idx tells how many sections there are, and how many IDs were drawn.
LEMMA Counted ==
  ASSUME ReadInv, client_idx \in Int
  PROVE  /\ client_idx + 1 \in Nat /\ client_idx + 1 <= MaxClients /\ issued = client_idx + 1
         /\ (client_idx = -1) <=> Sections = {}
<1>1. client_idx + 1 \in 0 .. MaxClients /\ issued = client_idx + 1
  BY DEF ReadInv
<1>2. PICK pos \in [1 .. client_idx + 1 -> Sections] : Ordered(pos, client_idx + 1)
  BY DEF ReadInv
<1>3. client_idx = -1 => Sections = {}
  BY <1>1, <1>2 DEF Ordered
<1>4. client_idx # -1 => Sections # {}
  <2>1. client_idx # -1 => 1 \in 1 .. client_idx + 1
    BY <1>1, TableAssumption
  <2> QED BY <1>2, <2>1
<1>5. MaxClients \in Nat
  BY TableAssumption
<1> QED BY <1>1, <1>3, <1>4, <1>5

\* A turn that gives up on the file had a reason to.
LEMMA GivesUp ==
  ASSUME NEW l, Taking(l), fatal, Rejected'
  PROVE  ConfigInv'
<1>1. file' \in Seq(Piece)
  BY FileGrows DEF Taking
<1> QED BY <1>1 DEF Taking, ConfigInv, fatal

\* A turn that goes on without a new section.
LEMMA GoesOn ==
  ASSUME NEW l, Taking(l), Good(l), ~IsSection(l), UNCHANGED <<issued, client_idx, status>>,
         config' = Settings', opts' = OptsSaid',
         \A n \in Nat : \A pos \in [1 .. n -> Sections], ids \in IDLists(n) :
            n = client_idx + 1 /\ Ordered(pos, n) /\ clients = Announced(pos, ids, n)
              => clients' = Announced(pos, ids, n)'
  PROVE  ConfigInv'
<1>1. file' \in Seq(Piece) /\ Reads(l) /\ ReadInv /\ client_idx \in Int /\ status = "reading"
  BY FileGrows DEF Taking, ConfigInv
<1>2. AllFormed' /\ LastsKnown'
  BY <1>1, FormRead, LastsRead DEF ReadInv, AllFormed
<1>3. PICK n \in Nat : n = client_idx + 1 /\ n \in 0 .. MaxClients
  BY <1>1, Counted DEF ReadInv
<1>4. PICK pos \in [1 .. n -> Sections], ids \in IDLists(n) : Ordered(pos, n) /\ clients = Announced(pos, ids, n)
  BY <1>1, <1>3 DEF ReadInv
<1>5. Sections' = Sections /\ Ordered(pos, n)' /\ clients' = Announced(pos, ids, n)'
  BY <1>1, <1>3, <1>4, OrderKept
<1>6. n = client_idx' + 1
  BY <1>3
<1>7. \E q \in [1 .. client_idx' + 1 -> Sections'], d \in IDLists(client_idx' + 1) :
         Ordered(q, client_idx + 1)' /\ clients' = Announced(q, d, client_idx + 1)'
  <2>1. pos \in [1 .. client_idx' + 1 -> Sections'] /\ ids \in IDLists(client_idx' + 1)
    BY <1>4, <1>5, <1>6
  <2>2. Ordered(pos, client_idx + 1)' /\ clients' = Announced(pos, ids, client_idx + 1)'
    BY <1>5, <1>6 DEF Ordered, Announced
  <2> QED BY <2>1, <2>2
<1>8. ReadInv'
  BY <1>1, <1>2, <1>3, <1>7 DEF ReadInv, AllFormed, IDLists, make_clientID
<1> QED BY <1>1, <1>8 DEF ConfigInv

\* What Taking says, for the lemmas on a turn.
LEMMA Taken ==
  ASSUME NEW l, Taking(l)
  PROVE  /\ Reads(l) /\ l \in Piece /\ ReadInv /\ LastsKnown /\ client_idx \in Int
         /\ config = Settings /\ opts = OptsSaid
BY DEF Taking, Reads, ConfigInv, ReadInv

\* The options are records of these fields.
LEMMA OptionFields ==
  /\ Settings = [strict_clients |-> Settings.strict_clients, unique_clients |-> Settings.unique_clients]
  /\ OptsSaid = [socket_path |-> OptsSaid.socket_path, wd_timeout_s |-> OptsSaid.wd_timeout_s,
                 reboot_timeout_s |-> OptsSaid.reboot_timeout_s]
<1>1. Settings = [strict_clients |-> Settings.strict_clients, unique_clients |-> Settings.unique_clients]
  BY DEF Settings
<1> QED BY <1>1 DEF OptsSaid

\* Blank lines and comments.
LEMMA SkipTaken ==
  ASSUME NEW l, Taking(l), Skip(l)
  PROVE  ConfigInv'
<1>1. ~IsPair(l) /\ ~IsSection(l) /\ Good(l)
  BY DEF Skip, IsPair, IsSection, Good
<1>2. config' = Settings' /\ opts' = OptsSaid'
  BY <1>1, Taken, OptionsRead, OptionFields DEF Skip, Keep
<1>3. ASSUME NEW n \in Nat, NEW pos \in [1 .. n -> Sections], NEW ids \in IDLists(n),
             Ordered(pos, n), clients = Announced(pos, ids, n)
      PROVE  clients' = Announced(pos, ids, n)'
  BY <1>1, <1>3, Taken, SectionsKept DEF Skip, Keep
<1> QED BY <1>1, <1>2, <1>3, GoesOn DEF Skip, Keep

\* The options of the whole daemon.
LEMMA OptionTaken ==
  ASSUME NEW l, Taking(l), IsPair(l), SetPath(l) \/ SetSeconds(l) \/ SetFlag(l)
  PROVE  ConfigInv'
<1>1. CASE fatal /\ ~Good(l)
  BY <1>1, Taken, BadIsRejected, GivesUp
<1>2. CASE ~fatal
  <2>1. ~IsSection(l) /\ KeyOf(l) # "timeout_ms" /\ Good(l)
    BY <1>2, Taken, PairFields DEF SetPath, SetSeconds, SetFlag, Good
  <2>2. UNCHANGED <<clients, issued, client_idx, status>>
    BY <1>2 DEF SetPath, SetSeconds, SetFlag
  <2>3. config' = Settings' /\ opts' = OptsSaid'
    <3>1. CASE SetPath(l)
      BY <3>1, Taken, OptionsRead, OptionFields DEF SetPath
    <3>2. CASE SetSeconds(l)
      BY <1>2, <3>2, Taken, OptionsRead, OptionFields DEF SetSeconds
    <3>3. CASE SetFlag(l)
      BY <1>2, <3>3, Taken, OptionsRead, OptionFields DEF SetFlag
    <3> QED BY <3>1, <3>2, <3>3
  <2>4. ASSUME NEW n \in Nat, NEW pos \in [1 .. n -> Sections], NEW ids \in IDLists(n),
               Ordered(pos, n), clients = Announced(pos, ids, n)
        PROVE  clients' = Announced(pos, ids, n)'
    BY <2>1, <2>2, <2>4, Taken, SectionsKept
  <2> QED BY <2>1, <2>2, <2>3, <2>4, GoesOn
<1>3. fatal => ~Good(l)
  BY DEF fatal, SetPath, SetSeconds, SetFlag, Good, Taking
<1> QED BY <1>1, <1>2, <1>3

\* The timeout of the section being read.
LEMMA TimeoutTaken ==
  ASSUME NEW l, Taking(l), IsPair(l), SetTimeoutMs(l)
  PROVE  ConfigInv'
<1>1. /\ KeyOf(l) = "timeout_ms" /\ l.val \in Ints /\ ~IsSection(l)
      /\ client_idx \in Int
  BY Taken, PairFields DEF SetTimeoutMs
<1>2. /\ TimeoutInRange(UInt(l.val)) <=> l.val \in TimeoutMin .. TimeoutMax
      /\ TimeoutInRange(UInt(l.val)) => UInt(l.val) = l.val
  BY <1>1, InRange
<1>3. Good(l) <=> client_idx # -1 /\ TimeoutInRange(UInt(l.val))
  BY <1>1, <1>2, Taken, Counted DEF Good
<1>4. CASE ~(client_idx # -1 /\ TimeoutInRange(UInt(l.val)))
  <2>1. fatal /\ ~Good(l)
    BY <1>3, <1>4 DEF SetTimeoutMs
  <2> QED BY <2>1, Taken, BadIsRejected, GivesUp
<1>5. CASE client_idx # -1 /\ TimeoutInRange(UInt(l.val))
  <2>1. /\ clients' = [clients EXCEPT ![client_idx + 1].timeout_ms = l.val]
        /\ UNCHANGED <<config, issued, opts, client_idx, status>>
    BY <1>2, <1>5 DEF SetTimeoutMs, TimedSlot
  <2>2. config' = Settings' /\ opts' = OptsSaid'
    BY <1>1, <2>1, Taken, OptionsRead, OptionFields
  <2>3. client_idx + 1 \in Slots
    BY <1>1, <1>5, Taken, Counted, TableAssumption DEF Slots
  <2>4. ASSUME NEW n \in Nat, NEW pos \in [1 .. n -> Sections], NEW ids \in IDLists(n),
               n = client_idx + 1, Ordered(pos, n), clients = Announced(pos, ids, n)
        PROVE  clients' = Announced(pos, ids, n)'
    <3>1. n \in Slots
      BY <2>3, <2>4
    <3>2. Announced(pos, ids, n)' = [Announced(pos, ids, n) EXCEPT ![n].timeout_ms = l.val]
      BY <1>1, <2>4, <3>1, Taken, TimeoutRead
    <3> QED BY <2>1, <2>4, <3>2
  <2> QED BY <1>1, <1>3, <1>5, <2>1, <2>2, <2>4, GoesOn
<1> QED BY <1>4, <1>5

\* A file with more sections than there are slots is never accepted.
LEMMA TooManyRejected ==
  ASSUME file' \in Seq(Piece), NEW n \in Nat, n > MaxClients,
         NEW pos \in [1 .. n -> Sections'], Ordered(pos, n)'
  PROVE  Rejected'
<1>1. Counting'
  BY SectionsAlwaysCounted, PTL
<1>2. SectionList' = [m \in 1 .. n |-> SectionAt(pos[m])']
  BY <1>1 DEF Counting
<1>3. Len(SectionList') = n
  BY <1>2
<1>4. ~(Len(SectionList') <= MaxClients)
  BY <1>3, TableAssumption
<1> QED BY <1>4 DEF Rejected, AcceptedConfig

\* A section: one more announced client, if there is a slot for it.
LEMMA SectionTaken ==
  ASSUME NEW l, Taking(l), SectionLine(l)
  PROVE  ConfigInv'
<1>1. /\ Reads(l) /\ IsSection(l) /\ ~IsPair(l) /\ ReadInv /\ LastsKnown /\ client_idx \in Int
      /\ status = "reading" /\ file' \in Seq(Piece)
  BY Taken, FileGrows DEF SectionLine, IsSection, Taking
<1>2. PICK n \in Nat : n = client_idx + 1 /\ n <= MaxClients /\ issued = n
  BY <1>1, Counted
<1>3. PICK pos \in [1 .. n -> Sections], ids \in IDLists(n) : Ordered(pos, n) /\ clients = Announced(pos, ids, n)
  BY <1>1, <1>2 DEF ReadInv
<1>4. PICK q : q = Longer(pos, n, New)
  OBVIOUS
<1>5. ASSUME NEW id \in make_clientID(n), NEW d, d = Longer(ids, n, id)
      PROVE  /\ q \in [1 .. n + 1 -> Sections'] /\ Ordered(q, n + 1)'
             /\ d \in IDLists(n + 1)
             /\ n + 1 \in Slots =>
                  Announced(q, d, n + 1)' =
                    [clients EXCEPT
                       ![n + 1] = AnnouncedClient([name |-> l.name, timeout_ms |-> DefaultTimeout], id)]
  <2>1. Reads(l) /\ IsSection(l) /\ LastsKnown /\ Ordered(pos, n)
    BY <1>1, <1>3
  <2>2. /\ q \in [1 .. n + 1 -> Sections'] /\ Ordered(q, n + 1)'
        /\ n + 1 \in Slots =>
             Announced(q, d, n + 1)' =
               [Announced(pos, ids, n) EXCEPT
                  ![n + 1] = AnnouncedClient([name |-> l.name, timeout_ms |-> DefaultTimeout], id)]
    BY <1>4, <1>5, <2>1, SectionListed
  <2>3. d \in IDLists(n + 1)
    BY <1>5, IDDrawn
  <2> QED BY <1>3, <2>2, <2>3
<1>6. q \in [1 .. n + 1 -> Sections'] /\ Ordered(q, n + 1)'
  <2>1. \E id : id \in make_clientID(n)
    BY DEF make_clientID
  <2> QED BY <1>5, <2>1
<1>7. CASE l.form = "extra"
  <2>1. fatal /\ ~Good(l)
    BY <1>1, <1>7 DEF SectionLine, IsSection, Good
  <2> QED BY <1>1, <2>1, BadIsRejected, GivesUp
<1>8. CASE l.form # "extra" /\ n >= MaxClients
  <2>1. fatal /\ n + 1 > MaxClients
    BY <1>1, <1>2, <1>8, TableAssumption DEF SectionLine
  <2>2. Rejected'
    BY <1>1, <1>6, <2>1, TooManyRejected
  <2> QED BY <2>1, <2>2, GivesUp
<1>9. CASE l.form # "extra" /\ n < MaxClients
  <2>1. PICK id \in make_clientID(n) :
          /\ client_idx' = n /\ issued' = n + 1
          /\ clients' = [clients EXCEPT
                           ![n + 1] = AnnouncedClient([name |-> l.name, timeout_ms |-> DefaultTimeout], id)]
          /\ UNCHANGED <<config, opts, status>>
    <3>1. client_idx + 1 = n /\ client_idx + 2 = n + 1 /\ issued = n /\ ~(n >= MaxClients)
      BY <1>1, <1>2, <1>9, TableAssumption
    <3> QED BY <1>1, <1>9, <3>1 DEF SectionLine
  <2>2. n + 1 \in Slots /\ n + 1 \in 0 .. MaxClients /\ n \in Int
    BY <1>9, TableAssumption DEF Slots
  <2>3. PICK d \in IDLists(n + 1) : clients' = Announced(q, d, n + 1)'
    <3>1. PICK d : d = Longer(ids, n, id)
      OBVIOUS
    <3>2. d \in IDLists(n + 1) /\ clients' = Announced(q, d, n + 1)'
      BY <1>5, <2>1, <2>2, <3>1
    <3> QED BY <3>2
  <2>4. AllFormed' /\ LastsKnown'
    <3>1. AllFormed /\ Good(l)
      BY <1>1, <1>9 DEF ReadInv, AllFormed, Good, IsSection
    <3> QED BY <1>1, <3>1, FormRead, LastsRead
  <2>5. config' = Settings' /\ opts' = OptsSaid'
    BY <1>1, <2>1, Taken, OptionsRead, OptionFields
  <2>6. \E p \in [1 .. client_idx' + 1 -> Sections'], e \in IDLists(client_idx' + 1) :
          Ordered(p, client_idx + 1)' /\ clients' = Announced(p, e, client_idx + 1)'
    <3>1. q \in [1 .. client_idx' + 1 -> Sections'] /\ d \in IDLists(client_idx' + 1)
      BY <1>6, <2>1, <2>3
    <3>2. Ordered(q, client_idx + 1)' /\ clients' = Announced(q, d, client_idx + 1)'
      BY <1>6, <2>1, <2>3 DEF Ordered, Announced
    <3> QED BY <3>1, <3>2
  <2>7. ReadInv'
    BY <2>1, <2>2, <2>4, <2>5, <2>6 DEF ReadInv, AllFormed, IDLists, make_clientID
  <2> QED BY <1>1, <2>1, <2>2, <2>7 DEF ConfigInv
<1> QED BY <1>2, <1>7, <1>8, <1>9, TableAssumption

\* One turn of the loop, whatever fgets returns.
LEMMA FgetsTaken ==
  ASSUME ConfigInv, NEW l \in Pieces, Fgets(l)
  PROVE  ConfigInv'
<1>1. Taking(l)
  BY ConfigAssumption DEF Fgets, Taking, Reads, ConfigInv
<1>2. CASE Skip(l)
  BY <1>1, <1>2, SkipTaken
<1>3. CASE Pair(l)
  <2>1. CASE KeyOf(l) \in {"service_user", "other"} /\ fatal
    <3>1. ~Good(l)
      BY <1>3, <2>1 DEF Good, Pair
    <3> QED BY <1>1, <2>1, <3>1, Taken, BadIsRejected, GivesUp
  <2> QED BY <1>1, <1>3, <2>1, OptionTaken, TimeoutTaken DEF Pair
<1>4. CASE SectionLine(l)
  BY <1>1, <1>4, SectionTaken
<1>5. CASE Garbage(l)
  <2>1. fatal /\ ~Good(l)
    BY <1>5 DEF Garbage, Good, IsPair
  <2> QED BY <1>1, <2>1, Taken, BadIsRejected, GivesUp
<1> QED BY <1>2, <1>3, <1>4, <1>5 DEF Fgets

----------------------------------------------------------------------------
(* The end of the file *)

\* The table holds what the file lists, section by section.
LEMMA TableIsList ==
  ASSUME ReadInv, file \in Seq(Piece), client_idx \in Int
  PROVE  \E n \in Nat : \E ids \in IDLists(n) :
           /\ n = client_idx + 1 /\ n <= MaxClients /\ issued = n
           /\ DOMAIN SectionList = 1 .. n /\ Len(SectionList) = n
           /\ clients = [s \in Slots |-> IF s <= n THEN AnnouncedClient(SectionList[s], ids[s])
                                         ELSE EmptyClient]
<1>1. PICK n \in Nat : n = client_idx + 1 /\ n <= MaxClients /\ issued = n
  BY Counted
<1>2. PICK pos \in [1 .. n -> Sections], ids \in IDLists(n) : Ordered(pos, n) /\ clients = Announced(pos, ids, n)
  BY <1>1 DEF ReadInv
<1>3. SectionList = [m \in 1 .. n |-> SectionAt(pos[m])]
  BY <1>2, SectionsCounted
<1>4. Len(SectionList) = n /\ DOMAIN SectionList = 1 .. n
  BY <1>3
<1>5. \A s \in Slots : s <= n => SectionList[s] = SectionAt(pos[s])
  BY <1>3 DEF Slots
<1>6. clients = [s \in Slots |-> IF s <= n THEN AnnouncedClient(SectionList[s], ids[s]) ELSE EmptyClient]
  BY <1>2, <1>5 DEF Announced
<1> QED BY <1>1, <1>4, <1>6

\* The checks after the loop decide on the table what the file demands of its own sections.
LEMMA ChecksAgree ==
  ASSUME ReadInv, file \in Seq(Piece), client_idx \in Int
  PROVE  AcceptedConfig(Settings, SectionList) <=>
           ~(\/ config.strict_clients /\ client_idx = -1
             \/ config.unique_clients /\ Duplicates)
<1> DEFINE Holds(n, ids) ==
        /\ n = client_idx + 1 /\ n <= MaxClients /\ Len(SectionList) = n
        /\ clients = [s \in Slots |-> IF s <= n THEN AnnouncedClient(SectionList[s], ids[s])
                                      ELSE EmptyClient]
<1>1. PICK n \in Nat : \E ids \in IDLists(n) : Holds(n, ids)
  BY TableIsList
<1>2. PICK ids \in IDLists(n) : Holds(n, ids)
  BY <1>1
<1>3. config = Settings
  BY DEF ReadInv
<1>4. \A s \in Slots : /\ clients[s].anounced <=> s <= n
                       /\ s <= n => clients[s].name = SectionList[s].name
  BY <1>2 DEF AnnouncedClient, EmptyClient
<1>5. \A i \in 1 .. n : i \in Slots /\ i <= n
  BY <1>2, TableAssumption DEF Slots
<1>6. Duplicates <=> ~(\A i, j \in 1 .. n : SectionList[i].name = SectionList[j].name => i = j)
  <2>1. ASSUME Duplicates
        PROVE  \E i, j \in 1 .. n : SectionList[i].name = SectionList[j].name /\ i # j
    <3>1. PICK i \in Slots, j \in Slots :
            i < j /\ clients[i].anounced /\ clients[j].anounced /\ clients[i].name = clients[j].name
      BY <2>1 DEF Duplicates
    <3>2. i \in 1 .. n /\ j \in 1 .. n /\ i # j
      BY <1>4, <3>1 DEF Slots
    <3> QED BY <1>4, <1>5, <3>1, <3>2
  <2>2. ASSUME NEW i \in 1 .. n, NEW j \in 1 .. n, i < j, SectionList[i].name = SectionList[j].name
        PROVE  Duplicates
    BY <1>4, <1>5, <2>2 DEF Duplicates
  <2>3. ASSUME NEW i \in 1 .. n, NEW j \in 1 .. n, i # j, SectionList[i].name = SectionList[j].name
        PROVE  Duplicates
    <3>1. i < j \/ j < i
      BY <2>3
    <3> QED BY <2>2, <2>3, <3>1
  <2> QED BY <2>1, <2>3
<1>7. (client_idx = -1) <=> ~(n > 0)
  BY <1>2
<1> QED BY <1>2, <1>3, <1>6, <1>7, TableAssumption DEF AcceptedConfig

\* What the file says is the same after a step that reads nothing.
LEMMA FileKept ==
  ASSUME UNCHANGED file
  PROVE  /\ Sections' = Sections /\ AllFormed' = AllFormed /\ LastsKnown' = LastsKnown
         /\ Settings' = Settings /\ OptsSaid' = OptsSaid /\ SectionList' = SectionList
         /\ \A n, pos, ids : Ordered(pos, n)' = Ordered(pos, n) /\ Announced(pos, ids, n)' = Announced(pos, ids, n)
<1>1. Sections' = Sections
  BY DEF Sections
<1>2. ASSUME NEW key PROVE Pairs(key)' = Pairs(key)
  BY DEF Pairs
<1>3. ASSUME NEW key, NEW d PROVE Word(key, d)' = Word(key, d) /\ Value(key, d)' = Value(key, d)
  <2>1. Pairs(key)' = Pairs(key)
    BY <1>2
  <2> QED BY <2>1 DEF Word, Value, LastOf
<1>4. ASSUME NEW i PROVE TimeoutsIn(i)' = TimeoutsIn(i)
  BY <1>1, <1>2 DEF TimeoutsIn
<1>5. ASSUME NEW i PROVE SectionAt(i)' = SectionAt(i)
  <2>1. TimeoutsIn(i)' = TimeoutsIn(i)
    BY <1>4
  <2> QED BY <2>1 DEF SectionAt, LastOf
<1>6. AllFormed' = AllFormed
  BY <1>1 DEF AllFormed, WellFormed
<1>7. LastsKnown' = LastsKnown
  BY <1>1, <1>2, <1>4 DEF LastsKnown, HasLast
<1>8. Settings' = Settings
  BY <1>3 DEF Settings
<1>9. OptsSaid' = OptsSaid
  BY <1>3 DEF OptsSaid
<1>10. SectionList' = SectionList
  <2> DEFINE Place(m) == CHOOSE i \in Sections : Before(i) = m
  <2>1. ASSUME NEW m PROVE Place(m)' = Place(m)
    BY <1>1 DEF Before
  <2>2. SectionList = [m \in 1 .. Cardinality(Sections) |-> SectionAt(Place(m))]
    BY DEF SectionList
  <2>3. SectionList' = [m \in 1 .. Cardinality(Sections') |-> SectionAt(Place(m))']
    BY DEF SectionList
  <2>4. ASSUME NEW m PROVE SectionAt(Place(m))' = SectionAt(Place(m))
    <3>1. PICK i : i = Place(m) /\ i = Place(m)'
      BY <2>1
    <3> HIDE DEF Place
    <3>2. SectionAt(Place(m))' = SectionAt(i)'
      BY <3>1 DEF SectionAt, TimeoutsIn, LastOf
    <3> QED BY <1>5, <3>1, <3>2
  <2> HIDE DEF Place
  <2> QED BY <1>1, <2>2, <2>3, <2>4
<1>11. ASSUME NEW n, NEW pos, NEW ids
       PROVE  Ordered(pos, n)' = Ordered(pos, n) /\ Announced(pos, ids, n)' = Announced(pos, ids, n)
  BY <1>1, <1>5 DEF Ordered, Announced
<1> QED BY <1>1, <1>6, <1>7, <1>8, <1>9, <1>10, <1>11

\* The loop's memory stands when nothing is read or set.
LEMMA ReadInvKept ==
  ASSUME ReadInv, UNCHANGED <<config, clients, issued, opts, client_idx, file>>
  PROVE  ReadInv'
<1>1. PICK pos \in [1 .. client_idx + 1 -> Sections], ids \in IDLists(client_idx + 1) :
        Ordered(pos, client_idx + 1) /\ clients = Announced(pos, ids, client_idx + 1)
  BY DEF ReadInv
<1>2. PICK n : n = client_idx + 1
  OBVIOUS
<1>3. pos \in [1 .. client_idx' + 1 -> Sections'] /\ ids \in IDLists(client_idx' + 1)
  BY FileKept
<1>4. Ordered(pos, n)' /\ clients' = Announced(pos, ids, n)'
  BY <1>1, <1>2, FileKept
<1>5. Ordered(pos, client_idx + 1)' /\ clients' = Announced(pos, ids, client_idx + 1)'
  BY <1>2, <1>4 DEF Ordered, Announced
<1> QED BY <1>3, <1>5, FileKept DEF ReadInv, AllFormed, IDLists, make_clientID

\* The end of the file.
LEMMA EofTaken ==
  ASSUME ConfigInv, Eof
  PROVE  ConfigInv'
<1>1. /\ ReadInv /\ file \in Seq(Piece) /\ client_idx \in Int
      /\ UNCHANGED <<config, clients, issued, opts, client_idx, file>>
  BY DEF ConfigInv, Eof, tableVars
<1>2. status' = IF AcceptedConfig(Settings, SectionList) THEN "accepted" ELSE "fatal"
  BY <1>1, ChecksAgree DEF Eof
<1>3. ReadInv'
  BY <1>1, ReadInvKept
<1>4. AcceptedConfig(Settings, SectionList)' <=> AcceptedConfig(Settings, SectionList)
  BY <1>1, FileKept DEF AcceptedConfig
<1> QED BY <1>1, <1>2, <1>3, <1>4 DEF ConfigInv, Rejected

\* Before the first piece is read.
LEMMA ConfigInvInit == ConfigInit => ConfigInv
<1> SUFFICES ASSUME ConfigInit PROVE ConfigInv
  OBVIOUS
<1>1. file = << >> /\ DOMAIN file = {} /\ client_idx = -1 /\ status = "reading" /\ issued = 0
  BY DEF ConfigInit
<1>2. Sections = {} /\ \A key : Pairs(key) = {}
  BY <1>1 DEF Sections, Pairs
<1>3. config = Settings /\ opts = OptsSaid
  BY <1>2 DEF ConfigInit, Settings, OptsSaid, Word, Value, DefaultOpts
<1>4. LastsKnown
  BY <1>2 DEF LastsKnown, HasLast
<1>5. client_idx + 1 = 0 /\ 0 \in 0 .. MaxClients /\ 1 .. 0 = {}
  BY <1>1, TableAssumption
<1>6. PICK pos : pos = [m \in 1 .. 0 |-> m]
  OBVIOUS
<1>7. /\ pos \in [1 .. 0 -> Sections] /\ pos \in IDLists(0) /\ Ordered(pos, 0)
      /\ clients = Announced(pos, pos, 0)
  BY <1>2, <1>5, <1>6, TableAssumption DEF Ordered, Announced, IDLists, ConfigInit, Slots
<1>8. file \in Seq(Piece)
  BY <1>1
<1>9. \E q \in [1 .. client_idx + 1 -> Sections], d \in IDLists(client_idx + 1) :
        Ordered(q, client_idx + 1) /\ clients = Announced(q, d, client_idx + 1)
  BY <1>5, <1>7
<1>10. AllFormed
  BY <1>1 DEF AllFormed
<1>11. ReadInv
  BY <1>1, <1>3, <1>4, <1>5, <1>9, <1>10 DEF ReadInv, AllFormed
<1> QED BY <1>1, <1>8, <1>11 DEF ConfigInv

\* Every step of the parser.
LEMMA ConfigInvNext == ConfigInv /\ [ConfigNext]_configVars => ConfigInv'
<1> SUFFICES ASSUME ConfigInv, [ConfigNext]_configVars PROVE ConfigInv'
  OBVIOUS
<1>1. ASSUME NEW l \in Pieces, Fgets(l) PROVE ConfigInv'
  BY <1>1, FgetsTaken
<1>2. CASE Eof
  BY <1>2, EofTaken
<1>3. CASE UNCHANGED configVars
  <2>1. UNCHANGED <<config, clients, issued, opts, client_idx, status, file>>
    BY <1>3 DEF configVars, tableVars
  <2>2. ReadInv => ReadInv'
    BY <2>1, ReadInvKept
  <2>3. AcceptedConfig(Settings, SectionList)' <=> AcceptedConfig(Settings, SectionList)
    BY <2>1, FileKept DEF AcceptedConfig
  <2>4. AllFormed' <=> AllFormed
    BY <2>1, FileKept
  <2>5. Rejected => Rejected'
    BY <2>3, <2>4 DEF Rejected, AllFormed
  <2> QED BY <2>1, <2>2, <2>3, <2>5 DEF ConfigInv
<1> QED BY <1>1, <1>2, <1>3 DEF ConfigNext, Parsed

\* What the loop remembers is what the file says so far, as long as it goes on.
LEMMA ConfigInvariant == ConfigSpec => []ConfigInv
BY ConfigInvInit, ConfigInvNext, PTL DEF ConfigSpec

----------------------------------------------------------------------------
(* The theorems *)

\* ParserAgrees, for every file: parse_config accepts exactly the files that are well-formed,
\* have a slot for every section and meet the demands of their own settings, and leaves the
\* last value of every option and every client with the last timeout of its own section.
THEOREM ParserAgreesAlways == ConfigSpec => []ParserAgrees
<1>1. ConfigInv => ParserAgrees
  <2> SUFFICES ASSUME ConfigInv, status # "reading" PROVE ParserAgrees
    BY DEF ParserAgrees
  <2>1. CASE status = "fatal"
    BY <2>1 DEF ConfigInv, Rejected, ParserAgrees
  <2>2. CASE status = "accepted"
    <3>1. ReadInv /\ file \in Seq(Piece) /\ client_idx \in Int /\ AcceptedConfig(Settings, SectionList)
      BY <2>2 DEF ConfigInv
    <3> DEFINE Holds(n, ids) ==
            /\ n <= MaxClients /\ Len(SectionList) = n
            /\ clients = [s \in Slots |-> IF s <= n THEN AnnouncedClient(SectionList[s], ids[s])
                                          ELSE EmptyClient]
    <3>2. PICK n \in Nat : \E ids \in IDLists(n) : Holds(n, ids)
      BY <3>1, TableIsList
    <3>3. PICK ids \in IDLists(n) : Holds(n, ids)
      BY <3>2
    <3>4. ASSUME NEW m \in 1 .. n
          PROVE  clients[m].name = SectionList[m].name /\ clients[m].timeout_ms = SectionList[m].timeout_ms
      <4>1. m \in Slots /\ m <= n
        BY <3>3, TableAssumption DEF Slots
      <4> QED BY <3>3, <4>1 DEF AnnouncedClient, EmptyClient
    <3> QED BY <2>2, <3>1, <3>3, <3>4 DEF ParserAgrees, ReadInv, OptsSaid
  <2> QED BY <2>1, <2>2 DEF ConfigInv
<1> QED BY <1>1, ConfigInvariant, PTL

\* AcceptedIsInitial, for every file: the table parse_config leaves is one the daemon may
\* start with, whether or not its clientIDs come from /dev/urandom.
THEOREM AcceptedIsAlwaysInitial == ConfigSpec => []AcceptedIsInitial
<1>1. ConfigInv => AcceptedIsInitial
  <2> SUFFICES ASSUME ConfigInv, status = "accepted" PROVE parse_config(config, SectionList)
    BY DEF AcceptedIsInitial
  <2>1. ReadInv /\ file \in Seq(Piece) /\ client_idx \in Int /\ AcceptedConfig(config, SectionList)
    BY DEF ConfigInv, ReadInv
  <2> DEFINE Holds(n, ids) ==
          /\ issued = n /\ Len(SectionList) = n
          /\ clients = [s \in Slots |-> IF s <= n THEN AnnouncedClient(SectionList[s], ids[s])
                                        ELSE EmptyClient]
  <2>2. PICK n \in Nat : \E ids \in IDLists(n) : Holds(n, ids)
    BY <2>1, TableIsList
  <2>3. PICK ids \in IDLists(n) : Holds(n, ids)
    BY <2>2
  <2>4. ids \in [1 .. n -> 1 .. n] /\ \A i \in 1 .. n : ids[i] \in make_clientID(i - 1)
    BY DEF IDLists
  <2> QED BY <2>1, <2>3, <2>4 DEF parse_config
<1> QED BY <1>1, ConfigInvariant, PTL
=============================================================================
