----------------------------- MODULE Schema_proofs -----------------------------
(***************************************************************************)
(* Proofs about the upgrade of the databases.                              *)
(*                                                                         *)
(* Both lists of statements are in order: each adds something of its own,  *)
(* what it needs an earlier one adds, and the versions never fall.  Hence  *)
(* the statements up to a version are the first of the list, and one that  *)
(* is run behind all before it finds what it needs and not what it adds.   *)
(* The invariant says what the database then holds: at least what its      *)
(* version says and what each process has run, and exactly that before two *)
(* processes were at work or one was killed.                               *)
(***************************************************************************)
EXTENDS Schema, SequenceTheorems, LeastElements

-----------------------------------------------------------------------------
(* The lists.                                                              *)

\* Where each thing is added.
Place(x) ==
  CASE x = "USERS" -> 1 [] x = "admin" -> 2 [] x = "SITES" -> 3 [] x = "CHASSIS" -> 4
    [] x = "RECEIVERS" -> 5 [] x = "LAST_SEEN" -> 6 [] x = "INTERFACE_ADDRESS" -> 7
    [] x = "PUBLIC_ADDRESS" -> 8 [] x = "ONLINE" -> 9 [] x = "FIRMWARE_VERSION" -> 10
    [] x = "EVENTS" -> 11 [] x = "POSTED" -> 12 [] x = "POSTED_IDX" -> 13
    [] x = "DELETED_EVENTS" -> 14 [] x = "UPDATE_FIRMWARE" -> 15
    [] x = "UPDATE_FIRMWARE_IDX" -> 16 [] x = "FEEDS" -> 17 [] x = "FEED_PRIV" -> 18
    [] x = "EVENTS_NO_URL" -> 19 [] x = "FEED_ID" -> 20 [] x = "FEED_ID_IDX" -> 21
    [] x = "ACTIVE_GUID" -> 22 [] x = "IS_ACTIVE" -> 23 [] x = "PENDING_COMMANDS" -> 24
    [] x = "GNMD_TIMESTAMP" -> 25 [] x = "INTERFACE_ADDRESS(40)" -> 26
    [] x = "PUBLIC_ADDRESS(40)" -> 27 [] x = "SYSTEM_TZID" -> 28
    [] x = "RECEIVERS.REMARKS" -> 29 [] x = "FEEDS.REMARKS" -> 30
    [] x = "DEFAULT_FEED_ID" -> 31 [] x = "DEFAULT_FEED_POSTED" -> 32
    [] x = "client EVENTS" -> 1 [] OTHER -> 0

\* The statements up to schema 7.
LEMMA Founding ==
  ASSUME NEW F, F = FoundingStatements
  PROVE  /\ F \in Seq(Range(F)) /\ Len(F) = 11
         /\ \A i \in 1..11 : Place(F[i].adds) = i
         /\ \A i \in 1..11 : \A x \in F[i].needs :
              \E j \in 1..(i - 1) : F[j].adds = x
         /\ \A i \in 1..11 : F[i].schema \in 1..7
         /\ \A i, j \in 1..11 : i <= j => F[i].schema <= F[j].schema
<1>1. Len(F) = 11
  BY DEF FoundingStatements
<1>2. F \in Seq(Range(F))
  BY DEF FoundingStatements, Range
<1>3. /\ F[1].schema = 1 /\ F[2].schema = 1 /\ F[3].schema = 1 /\ F[4].schema = 2
      /\ F[5].schema = 3 /\ F[6].schema = 4 /\ F[7].schema = 5 /\ F[8].schema = 5
      /\ F[9].schema = 6 /\ F[10].schema = 6 /\ F[11].schema = 7
  BY DEF FoundingStatements, Adds, AddsOrKeeps
<1>4. /\ F[1].adds = "USERS" /\ F[2].adds = "admin" /\ F[3].adds = "SITES"
      /\ F[4].adds = "CHASSIS" /\ F[5].adds = "RECEIVERS" /\ F[6].adds = "LAST_SEEN"
      /\ F[7].adds = "INTERFACE_ADDRESS" /\ F[8].adds = "PUBLIC_ADDRESS"
      /\ F[9].adds = "ONLINE" /\ F[10].adds = "FIRMWARE_VERSION" /\ F[11].adds = "EVENTS"
  BY DEF FoundingStatements, Adds, AddsOrKeeps
<1>5. /\ F[1].needs = {} /\ F[2].needs = {"USERS"} /\ F[3].needs = {} /\ F[4].needs = {}
      /\ F[5].needs = {} /\ F[6].needs = {"RECEIVERS"} /\ F[7].needs = {"RECEIVERS"}
      /\ F[8].needs = {"INTERFACE_ADDRESS"} /\ F[9].needs = {"RECEIVERS"}
      /\ F[10].needs = {"RECEIVERS"} /\ F[11].needs = {}
  BY DEF FoundingStatements, Adds, AddsOrKeeps
<1>6. /\ Place("USERS") = 1 /\ Place("admin") = 2 /\ Place("SITES") = 3
      /\ Place("CHASSIS") = 4 /\ Place("RECEIVERS") = 5 /\ Place("LAST_SEEN") = 6
      /\ Place("INTERFACE_ADDRESS") = 7 /\ Place("PUBLIC_ADDRESS") = 8
      /\ Place("ONLINE") = 9 /\ Place("FIRMWARE_VERSION") = 10 /\ Place("EVENTS") = 11
  BY DEF Place
<1>7. \A i \in 1..11 : Place(F[i].adds) = i
  BY <1>4, <1>6
<1>9. ASSUME NEW i \in 1..11, NEW x \in F[i].needs
      PROVE  \E j \in 1..(i - 1) : F[j].adds = x
  BY <1>4, <1>5
<1>10. \A i, j \in 1..11 : i <= j => F[i].schema \in 1..7 /\ F[i].schema <= F[j].schema
  BY <1>3, SMTT(20)
<1>11. \A i \in 1..11 : F[i].schema \in 1..7
  BY <1>10
<1> QED
  BY <1>1, <1>2, <1>7, <1>9, <1>10, <1>11

\* The statements of the schemas from 8 on, which come behind them.
LEMMA Later ==
  ASSUME NEW L, L = LaterStatements
  PROVE  /\ L \in Seq(Range(L)) /\ Len(L) = 21
         /\ \A i \in 1..21 : Place(L[i].adds) = 11 + i
         /\ \A i \in 1..21 : \A x \in L[i].needs :
              \/ \E j \in 1..11 : FoundingStatements[j].adds = x
              \/ \E j \in 1..(i - 1) : L[j].adds = x
         /\ \A i \in 1..21 : L[i].schema \in 8..22
         /\ \A i, j \in 1..21 : i <= j => L[i].schema <= L[j].schema
<1>1. Len(L) = 21
  BY DEF LaterStatements
<1>2. L \in Seq(Range(L))
  BY DEF LaterStatements, Range
<1>3. /\ L[1].schema = 8 /\ L[2].schema = 8 /\ L[3].schema = 9 /\ L[4].schema = 10
      /\ L[5].schema = 10 /\ L[6].schema = 11 /\ L[7].schema = 11 /\ L[8].schema = 11
      /\ L[9].schema = 11 /\ L[10].schema = 12 /\ L[11].schema = 13 /\ L[12].schema = 14
      /\ L[13].schema = 15 /\ L[14].schema = 16 /\ L[15].schema = 17 /\ L[16].schema = 17
      /\ L[17].schema = 18 /\ L[18].schema = 19 /\ L[19].schema = 20 /\ L[20].schema = 21
      /\ L[21].schema = 22
  BY DEF LaterStatements, Adds, AddsOrKeeps
<1>4. /\ L[1].adds = "POSTED" /\ L[2].adds = "POSTED_IDX" /\ L[3].adds = "DELETED_EVENTS"
      /\ L[4].adds = "UPDATE_FIRMWARE" /\ L[5].adds = "UPDATE_FIRMWARE_IDX"
      /\ L[6].adds = "FEEDS" /\ L[7].adds = "FEED_PRIV" /\ L[8].adds = "EVENTS_NO_URL"
      /\ L[9].adds = "FEED_ID" /\ L[10].adds = "FEED_ID_IDX" /\ L[11].adds = "ACTIVE_GUID"
      /\ L[12].adds = "IS_ACTIVE" /\ L[13].adds = "PENDING_COMMANDS"
      /\ L[14].adds = "GNMD_TIMESTAMP" /\ L[15].adds = "INTERFACE_ADDRESS(40)"
      /\ L[16].adds = "PUBLIC_ADDRESS(40)" /\ L[17].adds = "SYSTEM_TZID"
      /\ L[18].adds = "RECEIVERS.REMARKS" /\ L[19].adds = "FEEDS.REMARKS"
      /\ L[20].adds = "DEFAULT_FEED_ID" /\ L[21].adds = "DEFAULT_FEED_POSTED"
  BY DEF LaterStatements, Adds, AddsOrKeeps
<1>5. /\ L[1].needs = {"EVENTS"} /\ L[2].needs = {"POSTED"} /\ L[3].needs = {}
      /\ L[4].needs = {"LAST_SEEN"} /\ L[5].needs = {"UPDATE_FIRMWARE"} /\ L[6].needs = {}
      /\ L[7].needs = {"USERS"} /\ L[8].needs = {"EVENTS"} /\ L[9].needs = {"EVENTS"}
      /\ L[10].needs = {"FEED_ID"} /\ L[11].needs = {"LAST_SEEN"}
      /\ L[12].needs = {"FEED_ID"} /\ L[13].needs = {} /\ L[14].needs = {}
      /\ L[15].needs = {"INTERFACE_ADDRESS"} /\ L[16].needs = {"PUBLIC_ADDRESS"}
      /\ L[17].needs = {"GNMD_TIMESTAMP"} /\ L[18].needs = {"RECEIVERS"}
      /\ L[19].needs = {"FEEDS"} /\ L[20].needs = {"UPDATE_FIRMWARE"}
      /\ L[21].needs = {"DEFAULT_FEED_ID"}
  BY DEF LaterStatements, Adds, AddsOrKeeps
<1>6. /\ Place("POSTED") = 12 /\ Place("POSTED_IDX") = 13 /\ Place("DELETED_EVENTS") = 14
      /\ Place("UPDATE_FIRMWARE") = 15 /\ Place("UPDATE_FIRMWARE_IDX") = 16
      /\ Place("FEEDS") = 17 /\ Place("FEED_PRIV") = 18 /\ Place("EVENTS_NO_URL") = 19
      /\ Place("FEED_ID") = 20 /\ Place("FEED_ID_IDX") = 21 /\ Place("ACTIVE_GUID") = 22
      /\ Place("IS_ACTIVE") = 23 /\ Place("PENDING_COMMANDS") = 24
      /\ Place("GNMD_TIMESTAMP") = 25 /\ Place("INTERFACE_ADDRESS(40)") = 26
      /\ Place("PUBLIC_ADDRESS(40)") = 27 /\ Place("SYSTEM_TZID") = 28
      /\ Place("RECEIVERS.REMARKS") = 29 /\ Place("FEEDS.REMARKS") = 30
      /\ Place("DEFAULT_FEED_ID") = 31 /\ Place("DEFAULT_FEED_POSTED") = 32
  BY DEF Place
<1>7. \A i \in 1..21 : Place(L[i].adds) = 11 + i
  BY <1>4, <1>6
<1>8. /\ FoundingStatements[1].adds = "USERS" /\ FoundingStatements[5].adds = "RECEIVERS"
      /\ FoundingStatements[6].adds = "LAST_SEEN"
      /\ FoundingStatements[7].adds = "INTERFACE_ADDRESS"
      /\ FoundingStatements[8].adds = "PUBLIC_ADDRESS"
      /\ FoundingStatements[11].adds = "EVENTS"
  BY DEF FoundingStatements, Adds, AddsOrKeeps
<1>9. ASSUME NEW i \in 1..21, NEW x \in L[i].needs
      PROVE  \/ \E j \in 1..11 : FoundingStatements[j].adds = x
             \/ \E j \in 1..(i - 1) : L[j].adds = x
  BY <1>4, <1>5, <1>8
<1>10. \A i \in 1..10 : L[i].schema \in 8..12
  BY <1>3
<1>11. \A i \in 11..21 : L[i].schema \in 13..22
  BY <1>3
<1>12. ASSUME NEW i \in 1..21, NEW j \in 1..21, i <= j PROVE L[i].schema <= L[j].schema
  <2>1. CASE i \in 1..10 /\ j \in 1..10
    BY <1>3, <1>12, <2>1
  <2>2. CASE i \in 1..10 /\ j \in 11..21
    BY <1>10, <1>11, <2>2
  <2>3. CASE i \in 11..21 /\ j \in 11..21
    BY <1>3, <1>12, <2>3
  <2> QED
    BY <1>12, <2>1, <2>2, <2>3
<1>13. \A i \in 1..21 : L[i].schema \in 8..22
  BY <1>10, <1>11
<1> QED
  BY <1>1, <1>2, <1>7, <1>9, <1>12, <1>13

-----------------------------------------------------------------------------
(* What the proofs need to know of a list of statements.                   *)

\* A list in order.
Orderly(s) ==
  /\ Len(s) \in Nat \ {0} /\ DOMAIN s = 1..Len(s)
  /\ \A i, j \in 1..Len(s) : i # j => s[i].adds # s[j].adds
  /\ \A i \in 1..Len(s) : \A x \in s[i].needs : \E j \in 1..(i - 1) : s[j].adds = x
  /\ \A i \in 1..Len(s) : s[i].schema \in 1..22
  /\ \A i, j \in 1..Len(s) : i <= j => s[i].schema <= s[j].schema

\* gnmc's statements are in order.
LEMMA ManagementOrderly == Orderly(ManagementStatements)
<1>1. PICK F : F = FoundingStatements
  OBVIOUS
<1>2. PICK L : L = LaterStatements
  OBVIOUS
<1>3. PICK M : M = F \o L
  OBVIOUS
<1>4. \A i \in 1..32 : M[i] = IF i <= 11 THEN F[i] ELSE L[i - 11]
  <2>1. PICK R : F \in Seq(R) /\ L \in Seq(R)
    <3>1. F \in Seq(Range(F) \cup Range(L))
      BY <1>1, Founding, SeqMonotonic
    <3>2. L \in Seq(Range(F) \cup Range(L))
      BY <1>2, Later, SeqMonotonic
    <3> QED
      BY <3>1, <3>2
  <2>2. Len(F) = 11 /\ Len(L) = 21
    BY <1>1, <1>2, Founding, Later
  <2>3. \A i \in 1..(Len(F) + Len(L)) : (F \o L)[i] = IF i <= Len(F) THEN F[i] ELSE L[i - Len(F)]
    BY <2>1, ConcatProperties
  <2>4. 1..(Len(F) + Len(L)) = 1..32
    BY <2>2
  <2> QED
    BY <1>3, <2>2, <2>3, <2>4
<1>5. Len(M) = 32 /\ DOMAIN M = 1..32
  <2>1. PICK R : F \in Seq(R) /\ L \in Seq(R)
    <3>1. F \in Seq(Range(F) \cup Range(L))
      BY <1>1, Founding, SeqMonotonic
    <3>2. L \in Seq(Range(F) \cup Range(L))
      BY <1>2, Later, SeqMonotonic
    <3> QED
      BY <3>1, <3>2
  <2>2. Len(F) = 11 /\ Len(L) = 21
    BY <1>1, <1>2, Founding, Later
  <2>3. F \o L \in Seq(R) /\ Len(F \o L) = Len(F) + Len(L)
    BY <2>1, ConcatProperties
  <2>4. M \in Seq(R) /\ Len(M) = 32
    BY <1>3, <2>2, <2>3
  <2> QED
    BY <2>4
<1>a. (\A i \in 1..11 : M[i] = F[i]) /\ \A i \in 12..32 : M[i] = L[i - 11]
  BY <1>4
<1>6. \A i, j \in 1..32 : i # j => M[i].adds # M[j].adds
  <2>1. \A i \in 1..11 : Place(F[i].adds) = i
    BY <1>1, Founding
  <2>2. \A i \in 1..21 : Place(L[i].adds) = 11 + i
    BY <1>2, Later
  <2>3. \A i \in 1..32 : Place(M[i].adds) = i
    BY <1>a, <2>1, <2>2
  <2> QED
    BY <2>3
<1>7. ASSUME NEW i \in 1..32, NEW x \in M[i].needs
      PROVE  \E j \in 1..(i - 1) : M[j].adds = x
  <2>1. CASE i \in 1..11
    <3>1. PICK j \in 1..(i - 1) : F[j].adds = x
      <4>1. x \in F[i].needs
        BY <1>a, <1>7, <2>1
      <4> QED
        BY <1>1, <2>1, <4>1, Founding
    <3> QED
      BY <1>a, <2>1, <3>1
  <2>2. CASE i \in 12..32
    <3>1. i - 11 \in 1..21 /\ x \in L[i - 11].needs
      BY <1>a, <1>7, <2>2
    <3>2. \/ \E j \in 1..11 : F[j].adds = x
          \/ \E j \in 1..((i - 11) - 1) : L[j].adds = x
      BY <1>1, <1>2, <3>1, Later
    <3>3. ASSUME NEW j \in 1..11, F[j].adds = x PROVE j \in 1..(i - 1) /\ M[j].adds = x
      BY <1>a, <2>2, <3>3
    <3>4. ASSUME NEW j \in 1..((i - 11) - 1), L[j].adds = x
          PROVE  11 + j \in 1..(i - 1) /\ M[11 + j].adds = x
      BY <1>a, <2>2, <3>4
    <3> QED
      BY <3>2, <3>3, <3>4
  <2> QED
    BY <2>1, <2>2
<1>8. \A i \in 1..32 : M[i].schema \in 1..22
  <2>1. \A i \in 1..11 : F[i].schema \in 1..7
    BY <1>1, Founding
  <2>2. \A i \in 1..21 : L[i].schema \in 8..22
    BY <1>2, Later
  <2> QED
    BY <1>a, <2>1, <2>2
<1>9. ASSUME NEW i \in 1..32, NEW j \in 1..32, i <= j PROVE M[i].schema <= M[j].schema
  <2>1. CASE j \in 1..11
    <3>1. i \in 1..11
      BY <1>9, <2>1
    <3>2. F[i].schema <= F[j].schema
      BY <1>1, <1>9, <2>1, <3>1, Founding
    <3> QED
      BY <1>a, <2>1, <3>1, <3>2
  <2>2. CASE i \in 1..11 /\ j \in 12..32
    <3>1. F[i].schema \in 1..7
      BY <1>1, <2>2, Founding
    <3>2. j - 11 \in 1..21
      BY <2>2
    <3>3. L[j - 11].schema \in 8..22
      BY <1>2, <3>2, Later
    <3> QED
      BY <1>a, <2>2, <3>1, <3>3
  <2>3. CASE i \in 12..32
    <3>1. i - 11 \in 1..21 /\ j - 11 \in 1..21 /\ i - 11 <= j - 11
      BY <1>9, <2>3
    <3>2. L[i - 11].schema <= L[j - 11].schema
      BY <1>2, <3>1, Later
    <3>3. j \in 12..32
      BY <1>9, <2>3
    <3> QED
      BY <1>a, <2>3, <3>2, <3>3
  <2> QED
    BY <2>1, <2>2, <2>3, <1>9
<1>10. ManagementStatements = M
  BY <1>1, <1>2, <1>3 DEF ManagementStatements
<1>11. Orderly(M)
  <2>1. Len(M) \in Nat \ {0} /\ DOMAIN M = 1..Len(M)
    BY <1>5
  <2>2. \A i, j \in 1..Len(M) : i # j => M[i].adds # M[j].adds
    BY <1>5, <1>6
  <2>3. \A i \in 1..Len(M) : \A x \in M[i].needs : \E j \in 1..(i - 1) : M[j].adds = x
    BY <1>5, <1>7
  <2>4. \A i \in 1..Len(M) : M[i].schema \in 1..22
    BY <1>5, <1>8
  <2>5. \A i, j \in 1..Len(M) : i <= j => M[i].schema <= M[j].schema
    BY <1>5, <1>9
  <2> QED
    BY <2>1, <2>2, <2>3, <2>4, <2>5, Zenon DEF Orderly
<1> QED
  BY <1>10, <1>11

\* And so is gncd's.
LEMMA ClientOrderly == Orderly(ClientStatements)
<1>1. Len(ClientStatements) = 1 /\ ClientStatements \in [1..1 -> Range(ClientStatements)]
  BY DEF ClientStatements, Range
<1>2. ClientStatements[1].schema = 1 /\ ClientStatements[1].needs = {}
  BY DEF ClientStatements, Adds
<1>3. PICK C : C = ClientStatements
  OBVIOUS
<1>4. /\ Len(C) = 1 /\ DOMAIN C = 1..1 /\ C[1].schema = 1 /\ C[1].needs = {}
      /\ \A i \in 1..1 : i = 1
  BY <1>1, <1>2, <1>3
<1> QED
  BY <1>3, <1>4 DEF Orderly

\* What the statements of a list before number n add.
Upto(s, n) == {s[i].adds : i \in 1..(n - 1)}

\* The first statement of a version after v.
FirstOf(s, v) == 1 + Cardinality({i \in DOMAIN s : s[i].schema <= v})

\* The statements up to a version are the first of a list.
LEMMA FirstParts ==
  ASSUME NEW s, Orderly(s), NEW v \in Nat
  PROVE  /\ FirstOf(s, v) \in 1..(Len(s) + 1)
         /\ \A i \in 1..Len(s) : s[i].schema <= v <=> i < FirstOf(s, v)
<1>1. PICK n \in Nat \ {0} : n = Len(s)
  BY DEF Orderly
<1>2. DOMAIN s = 1..n /\ \A i, j \in 1..n : i <= j => s[i].schema <= s[j].schema
  BY <1>1 DEF Orderly
<1>3. \A i \in 1..n : s[i].schema \in Nat
  <2>1. \A i \in 1..n : s[i].schema \in 1..22
    BY <1>1 DEF Orderly
  <2> QED
    BY <2>1
<1>4. PICK k \in 1..(n + 1) : \A i \in 1..n : s[i].schema <= v <=> i < k
  <2> DEFINE After == {i \in 1..n : ~(s[i].schema <= v)}
  <2>1. CASE After = {}
    <3>1. n + 1 \in 1..(n + 1) /\ \A i \in 1..n : s[i].schema <= v /\ i < n + 1
      BY <2>1
    <3> QED
      BY <3>1
  <2>2. CASE After # {}
    <3>1. IsFiniteSet(After) /\ After \subseteq Nat
      <4>1. 1 \in Int /\ n \in Int
        OBVIOUS
      <4>2. IsFiniteSet(1..n)
        BY <4>1, FS_Interval
      <4>3. After \subseteq 1..n
        OBVIOUS
      <4>4. 1..n \subseteq Nat
        OBVIOUS
      <4> HIDE DEF After
      <4> QED
        BY <4>2, <4>3, <4>4, FS_Subset
    <3>2. PICK k \in After : \A d \in After : k <= d
      BY <2>2, <3>1, LeastElement
    <3>3. ASSUME NEW i \in 1..n PROVE s[i].schema <= v <=> i < k
      <4>1. CASE i < k
        BY <3>2, <4>1
      <4>2. CASE k <= i
        <5>1. s[k].schema <= s[i].schema /\ s[k].schema \in Nat /\ s[i].schema \in Nat
          BY <1>2, <1>3, <3>2, <4>2
        <5>2. ~(s[k].schema <= v)
          BY <3>2
        <5> QED
          BY <4>2, <5>1, <5>2
      <4> QED
        BY <3>2, <4>1, <4>2
    <3>4. k \in 1..(n + 1)
      BY <3>2
    <3> QED
      BY <3>3, <3>4
  <2> QED
    BY <2>1, <2>2
<1>5. {i \in DOMAIN s : s[i].schema <= v} = 1..(k - 1)
  <2>1. \A i : i \in 1..n /\ i < k <=> i \in 1..(k - 1)
    BY <1>4
  <2> QED
    BY <1>2, <1>4, <2>1
<1>6. Cardinality(1..(k - 1)) = k - 1
  <2>1. PICK a \in Int, b \in Int : a = 1 /\ b = k - 1
    BY <1>4
  <2>2. Cardinality(a..b) = IF a > b THEN 0 ELSE b - a + 1
    BY FS_Interval
  <2>3. (IF a > b THEN 0 ELSE b - a + 1) = k - 1
    BY <1>4, <2>1
  <2>4. 1..(k - 1) = a..b
    BY <2>1
  <2> QED
    BY <2>2, <2>3, <2>4
<1>7. FirstOf(s, v) = k
  <2>1. FirstOf(s, v) = 1 + (k - 1)
    BY <1>5, <1>6 DEF FirstOf
  <2>2. 1 + (k - 1) = k
    BY <1>4
  <2> QED
    BY <2>1, <2>2
<1> QED
  BY <1>1, <1>4, <1>7

\* No statement is of version 0, and all are of the last one or an earlier one.
LEMMA FirstEnds ==
  ASSUME NEW s, Orderly(s)
  PROVE  /\ FirstOf(s, 0) = 1
         /\ \A v \in Nat : v >= s[Len(s)].schema => FirstOf(s, v) = Len(s) + 1
<1>1. PICK n \in Nat \ {0} : n = Len(s)
  BY DEF Orderly
<1>2. \A i \in 1..n : s[i].schema \in 1..22 /\ s[i].schema <= s[n].schema
  <2>1. \A i, j \in 1..n : i <= j => s[i].schema <= s[j].schema
    BY <1>1 DEF Orderly
  <2>2. \A i \in 1..n : s[i].schema \in 1..22
    BY <1>1 DEF Orderly
  <2>3. n \in 1..n /\ \A i \in 1..n : i <= n
    OBVIOUS
  <2> QED
    BY <2>1, <2>2, <2>3
<1>3. FirstOf(s, 0) = 1
  <2>1. FirstOf(s, 0) \in 1..(n + 1) /\ (s[1].schema <= 0 <=> 1 < FirstOf(s, 0))
    <3>1. PICK v \in Nat : v = 0
      OBVIOUS
    <3>2. FirstOf(s, v) \in 1..(n + 1) /\ \A i \in 1..n : s[i].schema <= v <=> i < FirstOf(s, v)
      BY <1>1, FirstParts
    <3>3. 1 \in 1..n
      OBVIOUS
    <3> QED
      BY <3>1, <3>2, <3>3
  <2>2. ~(s[1].schema <= 0)
    BY <1>2
  <2> QED
    BY <2>1, <2>2
<1>4. ASSUME NEW v \in Nat, v >= s[n].schema PROVE FirstOf(s, v) = n + 1
  <2>1. FirstOf(s, v) \in 1..(n + 1) /\ (s[n].schema <= v <=> n < FirstOf(s, v))
    <3>1. \A i \in 1..n : s[i].schema <= v <=> i < FirstOf(s, v)
      BY <1>1, <1>4, FirstParts
    <3>2. FirstOf(s, v) \in 1..(n + 1)
      BY <1>1, <1>4, FirstParts
    <3>3. n \in 1..n
      OBVIOUS
    <3> QED
      BY <3>1, <3>2, <3>3
  <2>2. s[n].schema <= v
    BY <1>2, <1>4
  <2> QED
    BY <2>1, <2>2
<1> QED
  BY <1>1, <1>3, <1>4

\* What a list adds, statement by statement, and that each finds what it needs.
LEMMA UptoSteps ==
  ASSUME NEW s, Orderly(s)
  PROVE  /\ Upto(s, 1) = {}
         /\ \A n \in 1..(Len(s) + 1) : Upto(s, n) \subseteq Upto(s, Len(s) + 1)
         /\ \A n \in 1..Len(s) : /\ Upto(s, n + 1) = Upto(s, n) \cup {s[n].adds}
                                 /\ s[n].needs \subseteq Upto(s, n)
                                 /\ s[n].adds \notin Upto(s, n)
<1>1. PICK m \in Nat \ {0} : m = Len(s)
  BY DEF Orderly
<1>2. Upto(s, 1) = {}
  BY DEF Upto
<1>3. ASSUME NEW n \in 1..(m + 1) PROVE Upto(s, n) \subseteq Upto(s, m + 1)
  <2>1. 1..(n - 1) \subseteq 1..((m + 1) - 1)
    OBVIOUS
  <2> QED
    BY <2>1 DEF Upto
<1>4. ASSUME NEW n \in 1..m
      PROVE  /\ Upto(s, n + 1) = Upto(s, n) \cup {s[n].adds}
             /\ s[n].needs \subseteq Upto(s, n)
             /\ s[n].adds \notin Upto(s, n)
  <2>1. 1..((n + 1) - 1) = (1..(n - 1)) \cup {n}
    OBVIOUS
  <2>2. Upto(s, n + 1) = Upto(s, n) \cup {s[n].adds}
    BY <2>1 DEF Upto
  <2>3. s[n].needs \subseteq Upto(s, n)
    <3>1. \A x \in s[n].needs : \E j \in 1..(n - 1) : s[j].adds = x
      BY <1>1 DEF Orderly
    <3> QED
      BY <3>1 DEF Upto
  <2>4. s[n].adds \notin Upto(s, n)
    <3>1. \A j \in 1..(n - 1) : j \in 1..m /\ j # n
      OBVIOUS
    <3>2. \A j \in 1..m : j # n => s[j].adds # s[n].adds
      BY <1>1 DEF Orderly
    <3> QED
      BY <3>1, <3>2 DEF Upto
  <2> QED
    BY <2>2, <2>3, <2>4
<1> QED
  BY <1>1, <1>2, <1>3, <1>4

\* The list of statements, the versions and what belongs to each.
LEMMA Lists ==
  ASSUME database \in {"management", "client"}
  PROVE  /\ Orderly(Statements)
         /\ Current = Statements[Len(Statements)].schema
         /\ \A v \in Nat : /\ FirstAfter(v) = FirstOf(Statements, v)
                           /\ EffectsOf(v) = Upto(Statements, FirstOf(Statements, v))
<1>1. Orderly(Statements)
  BY ManagementOrderly, ClientOrderly DEF Statements
<1>2. Current = Statements[Len(Statements)].schema
  BY DEF Current, Last
<1>3. ASSUME NEW v \in Nat
      PROVE  /\ FirstAfter(v) = FirstOf(Statements, v)
             /\ EffectsOf(v) = Upto(Statements, FirstOf(Statements, v))
  <2>1. FirstAfter(v) = FirstOf(Statements, v)
    BY DEF FirstAfter, FirstOf
  <2>2. PICK s : s = Statements
    OBVIOUS
  <2>3. PICK k \in 1..(Len(s) + 1) :
          k = FirstOf(s, v) /\ \A i \in 1..Len(s) : s[i].schema <= v <=> i < k
    BY <1>1, <2>2, FirstParts
  <2>4. DOMAIN s = 1..Len(s) /\ Len(s) \in Nat
    BY <1>1, <2>2 DEF Orderly
  <2>5. EffectsOf(v) = {s[i].adds : i \in {j \in 1..Len(s) : s[j].schema <= v}}
    BY <2>2, <2>4 DEF EffectsOf, Range
  <2>6. {j \in 1..Len(s) : s[j].schema <= v} = 1..(k - 1)
    <3>1. \A i : i \in 1..Len(s) /\ i < k <=> i \in 1..(k - 1)
      BY <2>3, <2>4
    <3> QED
      BY <2>3, <3>1
  <2> QED
    BY <2>1, <2>2, <2>3, <2>5, <2>6 DEF Upto
<1> QED
  BY <1>1, <1>2, <1>3

\* The last version of a list, and the versions a database may be of.
LastOf(s) == s[Len(s)].schema
VersionsOf(s) == 0 .. LastOf(s) + 1

\* All that follows of a list in order.
LEMMA Parts ==
  ASSUME NEW s, Orderly(s)
  PROVE  /\ Len(s) \in Nat \ {0} /\ LastOf(s) \in 1..22
         /\ \A v \in Nat : FirstOf(s, v) \in 1..(Len(s) + 1)
         /\ FirstOf(s, 0) = 1 /\ FirstOf(s, LastOf(s)) = Len(s) + 1
         /\ \A v \in VersionsOf(s) : v \in Nat /\ v # NoTable /\ v # NoRow
         /\ 0 \in VersionsOf(s) /\ LastOf(s) \in VersionsOf(s)
<1>1. PICK n \in Nat \ {0} : n = Len(s)
  BY DEF Orderly
<1>2. LastOf(s) \in 1..22
  BY <1>1 DEF Orderly, LastOf
<1>3. FirstOf(s, 0) = 1 /\ FirstOf(s, LastOf(s)) = Len(s) + 1
  <2>1. PICK v \in Nat : v = LastOf(s)
    BY <1>2
  <2>2. v >= s[Len(s)].schema
    BY <2>1 DEF LastOf
  <2> QED
    BY <2>1, <2>2, FirstEnds
<1>4. /\ \A v \in VersionsOf(s) : v \in Nat /\ v # NoTable /\ v # NoRow
      /\ 0 \in VersionsOf(s) /\ LastOf(s) \in VersionsOf(s)
  BY <1>2 DEF VersionsOf, NoTable, NoRow
<1> QED
  BY <1>1, <1>2, <1>3, <1>4, FirstParts

-----------------------------------------------------------------------------
(* The inductive invariant, for the list s of the database's statements.   *)

\* The type invariant.
TypesFor(s) ==
  /\ effects \subseteq Upto(s, Len(s) + 1)
  /\ version \in VersionsOf(s) \cup {NoTable, NoRow}
  /\ pc \in [Clients -> {"off", "check", "create", "insert", "read", "update", "up", "failed"}]
  /\ schema \in [Clients -> VersionsOf(s)]
  /\ next \in [Clients -> 0 .. Len(s) + 1]
  /\ kills \in 0 .. MaxKills
  /\ disturbed \in BOOLEAN

\* What the statements up to the database's version add is there.
VersionOK(s) == version \in VersionsOf(s) => Upto(s, FirstOf(s, version)) \subseteq effects

\* A process that reads the version finds one, and what the statements before
\* the one it comes to add is there.
RanOK(s) ==
  \A c \in Clients :
    /\ pc[c] \in {"read", "update"} => version \in VersionsOf(s)
    /\ pc[c] = "update" => next[c] > 0 /\ Upto(s, next[c]) \subseteq effects

\* Before a process is killed and before two are at work, the database holds
\* exactly what its version, or the process at work, says.
Whole(s) == version \in VersionsOf(s) /\ effects = Upto(s, FirstOf(s, version))
Fresh(v) == version = v /\ effects = {}
AtWork(s, c) ==
  /\ pc[c] = "check" => Whole(s) \/ Fresh(NoTable)
  /\ pc[c] = "create" => Fresh(NoTable)
  /\ pc[c] = "insert" => Fresh(NoRow)
  /\ pc[c] = "read" => Whole(s)
  /\ pc[c] = "update" => version = schema[c] /\ effects = Upto(s, next[c])
AloneOK(s) ==
  ~disturbed =>
    /\ \A c \in Clients : pc[c] # "failed"
    /\ \A c, d \in Clients : Busy(c) /\ Busy(d) => c = d
    /\ \A c \in Clients : AtWork(s, c)
    /\ (\A c \in Clients : ~Busy(c)) => Whole(s) \/ Fresh(NoTable)

InvFor(s) == TypesFor(s) /\ VersionOK(s) /\ RanOK(s) /\ AloneOK(s)

SchemaInv == database \in {"management", "client"} /\ InvFor(Statements)

\* A process that goes elsewhere leaves the others where they are.
LEMMA GotoEffects ==
  ASSUME NEW s, TypesFor(s), NEW c \in Clients,
         NEW where \in {"off", "check", "create", "insert", "read", "update", "up", "failed"},
         Goto(c, where)
  PROVE  /\ pc' \in [Clients -> {"off", "check", "create", "insert", "read", "update", "up", "failed"}]
         /\ pc'[c] = where /\ \A d \in Clients \ {c} : pc'[d] = pc[d]
         /\ \A d \in Clients \ {c} : Busy(d)' <=> Busy(d)
         /\ Busy(c)' <=> where \in {"check", "create", "insert", "read", "update"}
<1>1. /\ pc' \in [Clients -> {"off", "check", "create", "insert", "read", "update", "up", "failed"}]
      /\ pc'[c] = where /\ \A d \in Clients \ {c} : pc'[d] = pc[d]
  BY DEF TypesFor, Goto
<1> QED
  BY <1>1 DEF Busy

\* What is true of a process alone at work, where none is disturbed.
LEMMA AloneAtWork ==
  ASSUME NEW s, AloneOK(s), ~disturbed, NEW c \in Clients, Busy(c)
  PROVE  AtWork(s, c) /\ \A d \in Clients \ {c} : pc[d] # "failed" /\ ~Busy(d)
BY DEF AloneOK

\* A process that is alone at work leaves the others idle: that is how AloneOK
\* holds after its step.
LEMMA AloneAgain ==
  ASSUME NEW s, NEW c \in Clients,
         ~disturbed' => /\ \A d \in Clients \ {c} : pc'[d] # "failed" /\ ~Busy(d)'
                        /\ pc'[c] # "failed" /\ AtWork(s, c)'
                        /\ ~Busy(c)' => (Whole(s) \/ Fresh(NoTable))'
  PROVE  AloneOK(s)'
<1>1. ASSUME ~disturbed' PROVE \A d \in Clients \ {c} : AtWork(s, d)'
  BY <1>1 DEF Busy, AtWork
<1> QED
  BY <1>1 DEF AloneOK

\* Start keeps the invariant.
LEMMA StartStep ==
  ASSUME NEW s, Orderly(s), InvFor(s), NEW c \in Clients, Start(c)
  PROVE  InvFor(s)'
<1>1. /\ Goto(c, "check") /\ next' = [next EXCEPT ![c] = 0] /\ ~Busy(c)
      /\ disturbed' = (disturbed \/ \E d \in Clients : Busy(d))
      /\ UNCHANGED <<effects, version, schema, kills>>
  BY DEF Start
<1>2. TypesFor(s) /\ VersionOK(s) /\ RanOK(s) /\ AloneOK(s)
  BY DEF InvFor
<1>3. /\ pc' \in [Clients -> {"off", "check", "create", "insert", "read", "update", "up", "failed"}]
      /\ pc'[c] = "check" /\ \A d \in Clients \ {c} : pc'[d] = pc[d] /\ (Busy(d)' <=> Busy(d))
  BY <1>1, <1>2, GotoEffects
<1>4. next' \in [Clients -> 0 .. Len(s) + 1] /\ \A d \in Clients \ {c} : next'[d] = next[d]
  <2>1. 0 \in 0 .. Len(s) + 1
    BY Parts
  <2> QED
    BY <1>1, <1>2, <2>1 DEF TypesFor
<1>5. TypesFor(s)'
  <2>1. disturbed' \in BOOLEAN
    BY <1>1, <1>2 DEF TypesFor
  <2> QED
    BY <1>1, <1>2, <1>3, <1>4, <2>1 DEF TypesFor
<1>6. VersionOK(s)'
  BY <1>1, <1>2 DEF VersionOK
<1>7. RanOK(s)'
  BY <1>1, <1>2, <1>3, <1>4 DEF RanOK
<1>8. AloneOK(s)'
  <2>1. ASSUME ~disturbed'
        PROVE  /\ \A d \in Clients \ {c} : pc'[d] # "failed" /\ ~Busy(d)'
               /\ AtWork(s, c)' /\ Busy(c)'
    <3>1. ~disturbed /\ \A d \in Clients : ~Busy(d)
      BY <1>1, <2>1
    <3>2. (Whole(s) \/ Fresh(NoTable)) /\ \A d \in Clients : pc[d] # "failed"
      BY <1>2, <3>1 DEF AloneOK
    <3>3. (Whole(s) \/ Fresh(NoTable))'
      BY <1>1, <3>2 DEF Whole, Fresh
    <3>4. AtWork(s, c)' /\ Busy(c)'
      BY <1>3, <3>3 DEF AtWork, Busy
    <3> QED
      BY <1>3, <3>1, <3>2, <3>4
  <2> QED
    BY <1>3, <2>1, AloneAgain
<1> QED
  BY <1>5, <1>6, <1>7, <1>8 DEF InvFor

\* CheckDb does.
LEMMA CheckDbStep ==
  ASSUME NEW s, Orderly(s), Versions = VersionsOf(s), InvFor(s), NEW c \in Clients, CheckDb(c)
  PROVE  InvFor(s)'
<1>1. /\ pc[c] = "check" /\ Goto(c, IF version \in VersionsOf(s) THEN "read" ELSE "create")
      /\ UNCHANGED <<effects, version, schema, next, kills, disturbed>>
  BY DEF CheckDb
<1>2. TypesFor(s) /\ VersionOK(s) /\ RanOK(s) /\ AloneOK(s)
  BY DEF InvFor
<1>3. /\ pc' \in [Clients -> {"off", "check", "create", "insert", "read", "update", "up", "failed"}]
      /\ pc'[c] = IF version \in VersionsOf(s) THEN "read" ELSE "create"
      /\ \A d \in Clients \ {c} : pc'[d] = pc[d] /\ (Busy(d)' <=> Busy(d))
      /\ Busy(c)' /\ Busy(c)
  <2>1. CASE version \in VersionsOf(s)
    BY <1>1, <1>2, <2>1, GotoEffects DEF Busy
  <2>2. CASE version \notin VersionsOf(s)
    BY <1>1, <1>2, <2>2, GotoEffects DEF Busy
  <2> QED
    BY <2>1, <2>2
<1>5. TypesFor(s)'
  BY <1>1, <1>2, <1>3 DEF TypesFor
<1>6. VersionOK(s)'
  BY <1>1, <1>2 DEF VersionOK
<1>7. RanOK(s)'
  BY <1>1, <1>2, <1>3 DEF RanOK
<1>8. AloneOK(s)'
  <2>1. ASSUME ~disturbed'
        PROVE  (\A d \in Clients \ {c} : pc'[d] # "failed" /\ ~Busy(d)') /\ AtWork(s, c)'
    <3>1. AtWork(s, c) /\ \A d \in Clients \ {c} : pc[d] # "failed" /\ ~Busy(d)
      BY <1>1, <1>2, <1>3, <2>1, AloneAtWork
    <3>2. Whole(s) \/ Fresh(NoTable)
      BY <1>1, <3>1 DEF AtWork
    <3>3. IF version \in VersionsOf(s) THEN Whole(s)' ELSE Fresh(NoTable)'
      <4>1. NoTable \notin VersionsOf(s)
        BY Parts
      <4> QED
        BY <1>1, <3>2, <4>1 DEF Whole, Fresh
    <3>4. AtWork(s, c)'
      BY <1>3, <3>3 DEF AtWork
    <3> QED
      BY <1>3, <3>1, <3>4
  <2> QED
    BY <1>3, <2>1, AloneAgain
<1> QED
  BY <1>5, <1>6, <1>7, <1>8 DEF InvFor

\* CreateDb's table does, or the attempt fails.
LEMMA CreateTableStep ==
  ASSUME NEW s, Orderly(s), InvFor(s), NEW c \in Clients, CreateTable(c)
  PROVE  InvFor(s)'
<1>1. /\ pc[c] = "create"
      /\ \/ version = NoTable /\ Goto(c, "insert") /\ version' = NoRow
         \/ version # NoTable /\ Goto(c, "failed") /\ version' = version
      /\ UNCHANGED <<effects, schema, next, kills, disturbed>>
  BY DEF CreateTable
<1>2. TypesFor(s) /\ VersionOK(s) /\ RanOK(s) /\ AloneOK(s)
  BY DEF InvFor
<1>3. /\ pc' \in [Clients -> {"off", "check", "create", "insert", "read", "update", "up", "failed"}]
      /\ pc'[c] = IF version = NoTable THEN "insert" ELSE "failed"
      /\ \A d \in Clients \ {c} : pc'[d] = pc[d] /\ (Busy(d)' <=> Busy(d))
      /\ Busy(c)
  BY <1>1, <1>2, GotoEffects DEF Busy
<1>4. NoTable \notin VersionsOf(s) /\ NoRow \notin VersionsOf(s)
  BY Parts
<1>5. TypesFor(s)'
  BY <1>1, <1>2, <1>3 DEF TypesFor
<1>6. VersionOK(s)'
  BY <1>1, <1>2, <1>4 DEF VersionOK
<1>7. RanOK(s)'
  BY <1>1, <1>2, <1>3, <1>4 DEF RanOK
<1>8. AloneOK(s)'
  <2>1. ASSUME ~disturbed'
        PROVE  /\ \A d \in Clients \ {c} : pc'[d] # "failed" /\ ~Busy(d)'
               /\ pc'[c] = "insert" /\ AtWork(s, c)' /\ Busy(c)'
    <3>1. AtWork(s, c) /\ \A d \in Clients \ {c} : pc[d] # "failed" /\ ~Busy(d)
      BY <1>1, <1>2, <1>3, <2>1, AloneAtWork
    <3>2. version = NoTable /\ Fresh(NoRow)'
      BY <1>1, <3>1 DEF AtWork, Fresh
    <3>3. AtWork(s, c)' /\ Busy(c)'
      BY <1>3, <3>2 DEF AtWork, Busy
    <3> QED
      BY <1>3, <3>1, <3>2, <3>3
  <2> QED
    BY <1>3, <2>1, AloneAgain
<1> QED
  BY <1>5, <1>6, <1>7, <1>8 DEF InvFor

\* So does the row with version 0, behind CreateDb's table.
LEMMA CreatedStep ==
  ASSUME NEW s, Orderly(s), InvFor(s), NEW c \in Clients, InsertVersion(c)
  PROVE  InvFor(s)'
<1>1. /\ pc[c] = "insert" /\ Goto(c, "read") /\ version' = 0
      /\ UNCHANGED <<effects, schema, next, kills, disturbed>>
  BY DEF InsertVersion
<1>2. TypesFor(s) /\ VersionOK(s) /\ RanOK(s) /\ AloneOK(s)
  BY DEF InvFor
<1>3. /\ pc' \in [Clients -> {"off", "check", "create", "insert", "read", "update", "up", "failed"}]
      /\ pc'[c] = "read"
      /\ \A d \in Clients \ {c} : pc'[d] = pc[d] /\ (Busy(d)' <=> Busy(d))
      /\ Busy(c)' /\ Busy(c)
  BY <1>1, <1>2, GotoEffects DEF Busy
<1>4. 0 \in VersionsOf(s) /\ Upto(s, FirstOf(s, 0)) = {}
  BY Parts, UptoSteps
<1>5. TypesFor(s)'
  BY <1>1, <1>2, <1>3, <1>4 DEF TypesFor
<1>6. VersionOK(s)'
  BY <1>1, <1>4 DEF VersionOK
<1>7. RanOK(s)'
  BY <1>1, <1>2, <1>3, <1>4 DEF RanOK
<1>8. AloneOK(s)'
  <2>1. ASSUME ~disturbed'
        PROVE  (\A d \in Clients \ {c} : pc'[d] # "failed" /\ ~Busy(d)') /\ AtWork(s, c)'
    <3>1. AtWork(s, c) /\ \A d \in Clients \ {c} : pc[d] # "failed" /\ ~Busy(d)
      BY <1>1, <1>2, <1>3, <2>1, AloneAtWork
    <3>2. effects = {}
      BY <1>1, <3>1 DEF AtWork, Fresh
    <3>3. Whole(s)'
      BY <1>1, <1>4, <3>2 DEF Whole
    <3>4. AtWork(s, c)'
      BY <1>3, <3>3 DEF AtWork
    <3> QED
      BY <1>3, <3>1, <3>4
  <2> QED
    BY <1>3, <2>1, AloneAgain
<1> QED
  BY <1>5, <1>6, <1>7, <1>8 DEF InvFor

\* CheckSchema reads the version.
LEMMA ReadSchemaStep ==
  ASSUME NEW s, Orderly(s), \A v \in Nat : FirstAfter(v) = FirstOf(s, v),
         InvFor(s), NEW c \in Clients, ReadSchema(c)
  PROVE  InvFor(s)'
<1>1. /\ pc[c] = "read" /\ (Goto(c, "off") \/ Goto(c, "update"))
      /\ schema' = [schema EXCEPT ![c] = version]
      /\ next' = [next EXCEPT ![c] = FirstAfter(version)]
      /\ UNCHANGED <<effects, version, kills, disturbed>>
  BY DEF ReadSchema
<1>2. TypesFor(s) /\ VersionOK(s) /\ RanOK(s) /\ AloneOK(s)
  BY DEF InvFor
<1>3. /\ pc' \in [Clients -> {"off", "check", "create", "insert", "read", "update", "up", "failed"}]
      /\ pc'[c] \in {"off", "update"}
      /\ \A d \in Clients \ {c} : pc'[d] = pc[d] /\ (Busy(d)' <=> Busy(d))
      /\ Busy(c)
  BY <1>1, <1>2, GotoEffects DEF Busy
<1>4. version \in VersionsOf(s) /\ version \in Nat
  <2>1. version \in VersionsOf(s)
    BY <1>1, <1>2 DEF RanOK
  <2> QED
    BY <2>1, Parts
<1>5. PICK n \in 1..(Len(s) + 1) : n = FirstOf(s, version)
  BY <1>4, Parts
<1>6. next' = [next EXCEPT ![c] = n]
  BY <1>1, <1>4, <1>5
<1>7. /\ next' \in [Clients -> 0 .. Len(s) + 1] /\ next'[c] = n
      /\ \A d \in Clients \ {c} : next'[d] = next[d]
  <2>1. n \in 0 .. Len(s) + 1 /\ next \in [Clients -> 0 .. Len(s) + 1]
    <3>1. PICK m \in Nat : m = Len(s)
      BY Parts
    <3> QED
      BY <1>2, <1>5, <3>1 DEF TypesFor
  <2> QED
    BY <1>6, <2>1
<1>8. /\ schema' \in [Clients -> VersionsOf(s)] /\ schema'[c] = version
      /\ \A d \in Clients \ {c} : schema'[d] = schema[d]
  BY <1>1, <1>2, <1>4 DEF TypesFor
<1>9. TypesFor(s)'
  BY <1>1, <1>2, <1>3, <1>7, <1>8 DEF TypesFor
<1>10. VersionOK(s)'
  BY <1>1, <1>2 DEF VersionOK
<1>11. n > 0 /\ Upto(s, n) \subseteq effects
  BY <1>2, <1>4, <1>5 DEF VersionOK
<1>12. RanOK(s)'
  BY <1>1, <1>2, <1>3, <1>4, <1>7, <1>11 DEF RanOK
<1>13. AloneOK(s)'
  <2>1. ASSUME ~disturbed'
        PROVE  /\ \A d \in Clients \ {c} : pc'[d] # "failed" /\ ~Busy(d)'
               /\ AtWork(s, c)' /\ Whole(s)'
    <3>1. AtWork(s, c) /\ \A d \in Clients \ {c} : pc[d] # "failed" /\ ~Busy(d)
      BY <1>1, <1>2, <1>3, <2>1, AloneAtWork
    <3>2. Whole(s) /\ Whole(s)'
      BY <1>1, <3>1 DEF AtWork, Whole
    <3>3. AtWork(s, c)'
      BY <1>1, <1>3, <1>5, <1>7, <1>8, <3>2 DEF AtWork, Whole
    <3> QED
      BY <1>3, <3>1, <3>2, <3>3
  <2> QED
    BY <1>3, <2>1, AloneAgain
<1> QED
  BY <1>9, <1>10, <1>12, <1>13 DEF InvFor

\* The user declines.
LEMMA DeclineStep ==
  ASSUME NEW s, Orderly(s), VersionsOf(s) = Versions, \A v \in Nat : FirstAfter(v) = FirstOf(s, v),
         InvFor(s), NEW c \in Clients, Decline(c)
  PROVE  InvFor(s)'
<1>1. /\ pc[c] = "update" /\ Goto(c, "off") /\ next[c] = FirstAfter(schema[c])
      /\ UNCHANGED <<effects, version, schema, next, kills, disturbed>>
  BY DEF Decline
<1>2. TypesFor(s) /\ VersionOK(s) /\ RanOK(s) /\ AloneOK(s)
  BY DEF InvFor
<1>3. /\ pc' \in [Clients -> {"off", "check", "create", "insert", "read", "update", "up", "failed"}]
      /\ pc'[c] = "off"
      /\ \A d \in Clients \ {c} : pc'[d] = pc[d] /\ (Busy(d)' <=> Busy(d))
      /\ Busy(c)
  BY <1>1, <1>2, GotoEffects DEF Busy
<1>4. TypesFor(s)'
  BY <1>1, <1>2, <1>3 DEF TypesFor
<1>5. VersionOK(s)'
  BY <1>1, <1>2 DEF VersionOK
<1>6. RanOK(s)'
  BY <1>1, <1>2, <1>3 DEF RanOK
<1>7. AloneOK(s)'
  <2>1. ASSUME ~disturbed'
        PROVE  /\ \A d \in Clients \ {c} : pc'[d] # "failed" /\ ~Busy(d)'
               /\ AtWork(s, c)' /\ Whole(s)'
    <3>1. AtWork(s, c) /\ \A d \in Clients \ {c} : pc[d] # "failed" /\ ~Busy(d)
      BY <1>1, <1>2, <1>3, <2>1, AloneAtWork
    <3>2. version = schema[c] /\ effects = Upto(s, next[c])
      BY <1>1, <3>1 DEF AtWork
    <3>3. version \in VersionsOf(s) /\ version \in Nat
      <4>1. version \in VersionsOf(s)
        BY <1>1, <1>2 DEF RanOK
      <4> QED
        BY <4>1, Parts
    <3>4. effects = Upto(s, FirstOf(s, version))
      BY <1>1, <3>2, <3>3
    <3>5. Whole(s)' /\ AtWork(s, c)'
      BY <1>1, <1>3, <3>3, <3>4 DEF Whole, AtWork
    <3> QED
      BY <1>3, <3>1, <3>5
  <2> QED
    BY <1>3, <2>1, AloneAgain
<1> QED
  BY <1>4, <1>5, <1>6, <1>7 DEF InvFor

\* A statement runs, or the attempt fails: not where none is disturbed.
LEMMA RunStatementStep ==
  ASSUME NEW s, Orderly(s), Statements = s, InvFor(s), NEW c \in Clients, RunStatement(c)
  PROVE  InvFor(s)'
<1>1. /\ pc[c] = "update" /\ next[c] <= Len(s)
      /\ UNCHANGED <<version, schema, kills, disturbed>>
  BY DEF RunStatement
<1>2. TypesFor(s) /\ VersionOK(s) /\ RanOK(s) /\ AloneOK(s)
  BY DEF InvFor
<1>3. PICK n \in 1..Len(s) : n = next[c]
  <2>1. next[c] \in 0 .. Len(s) + 1
    BY <1>2 DEF TypesFor
  <2>2. next[c] > 0
    BY <1>1, <1>2 DEF RanOK
  <2>3. PICK m \in Nat : m = Len(s)
    BY Parts
  <2> QED
    BY <1>1, <2>1, <2>2, <2>3
<1>4. n \in Nat /\ n + 1 \in 1..(Len(s) + 1)
  <2>1. PICK m \in Nat : m = Len(s)
    BY Parts
  <2> QED
    BY <1>3, <2>1
<1>5. PICK t : t = s[n]
  OBVIOUS
<1>6. Upto(s, n) \subseteq effects
  BY <1>1, <1>2, <1>3 DEF RanOK
<1>7. /\ Upto(s, n + 1) = Upto(s, n) \cup {t.adds} /\ t.needs \subseteq Upto(s, n)
      /\ t.adds \notin Upto(s, n) /\ Upto(s, n + 1) \subseteq Upto(s, Len(s) + 1)
  BY <1>3, <1>4, <1>5, UptoSteps
<1>8. Busy(c)
  BY <1>1 DEF Busy
<1>9. ASSUME ~disturbed
      PROVE  /\ \A d \in Clients \ {c} : pc[d] # "failed" /\ ~Busy(d)
             /\ version = schema[c] /\ effects = Upto(s, n) /\ Runs(t)
  <2>1. AtWork(s, c) /\ \A d \in Clients \ {c} : pc[d] # "failed" /\ ~Busy(d)
    BY <1>2, <1>8, <1>9, AloneAtWork
  <2>2. version = schema[c] /\ effects = Upto(s, n)
    BY <1>1, <1>3, <2>1 DEF AtWork
  <2> QED
    BY <1>7, <2>1, <2>2 DEF Runs
<1>10. CASE Runs(t)
  <2>1. /\ effects' = effects \cup {t.adds} /\ next' = [next EXCEPT ![c] = n + 1]
        /\ UNCHANGED pc
    BY <1>3, <1>5, <1>10 DEF RunStatement
  <2>2. /\ next' \in [Clients -> 0 .. Len(s) + 1] /\ next'[c] = n + 1
        /\ \A d \in Clients \ {c} : next'[d] = next[d]
    <3>1. n + 1 \in 0 .. Len(s) + 1 /\ next \in [Clients -> 0 .. Len(s) + 1]
      BY <1>2, <1>4, Parts DEF TypesFor
    <3> QED
      BY <2>1, <3>1
  <2>3. effects' \subseteq Upto(s, Len(s) + 1)
    BY <1>2, <1>7, <2>1 DEF TypesFor
  <2>4. TypesFor(s)'
    BY <1>1, <1>2, <2>1, <2>2, <2>3 DEF TypesFor
  <2>5. VersionOK(s)'
    BY <1>1, <1>2, <2>1 DEF VersionOK
  <2>6. n + 1 > 0 /\ Upto(s, n + 1) \subseteq effects'
    BY <1>4, <1>6, <1>7, <2>1
  <2>7. RanOK(s)'
    BY <1>1, <1>2, <2>1, <2>2, <2>6 DEF RanOK
  <2>8. AloneOK(s)'
    <3>1. ASSUME ~disturbed'
          PROVE  (\A d \in Clients \ {c} : pc'[d] # "failed" /\ ~Busy(d)') /\ AtWork(s, c)'
      <4>1. /\ \A d \in Clients \ {c} : pc[d] # "failed" /\ ~Busy(d)
            /\ version = schema[c] /\ effects = Upto(s, n)
        BY <1>1, <1>9, <3>1
      <4>2. effects' = Upto(s, n + 1)
        BY <1>7, <2>1, <4>1
      <4>3. AtWork(s, c)'
        BY <1>1, <2>1, <2>2, <4>1, <4>2 DEF AtWork
      <4> QED
        BY <2>1, <4>1, <4>3 DEF Busy
    <3>2. pc'[c] # "failed" /\ Busy(c)'
      BY <1>1, <1>8, <2>1 DEF Busy
    <3> QED
      BY <3>1, <3>2, AloneAgain
  <2> QED
    BY <2>4, <2>5, <2>7, <2>8 DEF InvFor
<1>11. CASE ~Runs(t)
  <2>1. Goto(c, "failed") /\ UNCHANGED <<effects, next>>
    BY <1>3, <1>5, <1>11 DEF RunStatement
  <2>2. /\ pc' \in [Clients -> {"off", "check", "create", "insert", "read", "update", "up", "failed"}]
        /\ pc'[c] = "failed" /\ \A d \in Clients \ {c} : pc'[d] = pc[d]
    BY <1>2, <2>1, GotoEffects
  <2>3. TypesFor(s)'
    BY <1>1, <1>2, <2>1, <2>2 DEF TypesFor
  <2>4. VersionOK(s)'
    BY <1>1, <1>2, <2>1 DEF VersionOK
  <2>5. RanOK(s)'
    BY <1>1, <1>2, <2>1, <2>2 DEF RanOK
  <2>6. AloneOK(s)'
    BY <1>1, <1>9, <1>11 DEF AloneOK
  <2> QED
    BY <2>3, <2>4, <2>5, <2>6 DEF InvFor
<1> QED
  BY <1>10, <1>11

\* The version is written.
LEMMA StampVersionStep ==
  ASSUME NEW s, Orderly(s), Statements = s, Current = LastOf(s),
         InvFor(s), NEW c \in Clients, StampVersion(c)
  PROVE  InvFor(s)'
<1>1. /\ pc[c] = "update" /\ next[c] > Len(s) /\ Goto(c, "up") /\ version' = LastOf(s)
      /\ UNCHANGED <<effects, schema, next, kills, disturbed>>
  BY DEF StampVersion, StampedVersion
<1>2. TypesFor(s) /\ VersionOK(s) /\ RanOK(s) /\ AloneOK(s)
  BY DEF InvFor
<1>3. /\ pc' \in [Clients -> {"off", "check", "create", "insert", "read", "update", "up", "failed"}]
      /\ pc'[c] = "up"
      /\ \A d \in Clients \ {c} : pc'[d] = pc[d] /\ (Busy(d)' <=> Busy(d))
      /\ Busy(c)
  BY <1>1, <1>2, GotoEffects DEF Busy
<1>4. next[c] = Len(s) + 1
  <2>1. next[c] \in 0 .. Len(s) + 1
    BY <1>2 DEF TypesFor
  <2> QED
    BY <1>1, <2>1, Parts
<1>5. LastOf(s) \in VersionsOf(s) /\ FirstOf(s, LastOf(s)) = Len(s) + 1
  BY Parts
<1>6. TypesFor(s)'
  BY <1>1, <1>2, <1>3, <1>5 DEF TypesFor
<1>7. Upto(s, Len(s) + 1) \subseteq effects
  BY <1>1, <1>2, <1>4 DEF RanOK
<1>8. VersionOK(s)'
  BY <1>1, <1>5, <1>7 DEF VersionOK
<1>9. RanOK(s)'
  BY <1>1, <1>2, <1>3, <1>5 DEF RanOK
<1>10. AloneOK(s)'
  <2>1. ASSUME ~disturbed'
        PROVE  /\ \A d \in Clients \ {c} : pc'[d] # "failed" /\ ~Busy(d)'
               /\ AtWork(s, c)' /\ Whole(s)'
    <3>1. \A d \in Clients \ {c} : pc[d] # "failed" /\ ~Busy(d)
      BY <1>1, <1>2, <1>3, <2>1, AloneAtWork
    <3>2. effects \subseteq Upto(s, Len(s) + 1)
      BY <1>2 DEF TypesFor
    <3>3. Whole(s)'
      BY <1>1, <1>5, <1>7, <3>2 DEF Whole
    <3>4. AtWork(s, c)'
      BY <1>3 DEF AtWork
    <3> QED
      BY <1>3, <3>1, <3>3, <3>4
  <2> QED
    BY <1>3, <2>1, AloneAgain
<1> QED
  BY <1>6, <1>8, <1>9, <1>10 DEF InvFor

\* A process is killed.
LEMMA KillStep ==
  ASSUME NEW s, InvFor(s), NEW c \in Clients, Kill(c)
  PROVE  InvFor(s)'
<1>1. /\ kills < MaxKills /\ kills' = kills + 1 /\ Goto(c, "off") /\ disturbed' = TRUE
      /\ UNCHANGED <<effects, version, schema, next>>
  BY DEF Kill
<1>2. TypesFor(s) /\ VersionOK(s) /\ RanOK(s)
  BY DEF InvFor
<1>3. /\ pc' \in [Clients -> {"off", "check", "create", "insert", "read", "update", "up", "failed"}]
      /\ pc'[c] = "off" /\ \A d \in Clients \ {c} : pc'[d] = pc[d]
  BY <1>1, <1>2, GotoEffects
<1>4. kills' \in 0 .. MaxKills
  BY <1>1, <1>2, SchemaAssumption DEF TypesFor
<1>5. TypesFor(s)'
  BY <1>1, <1>2, <1>3, <1>4 DEF TypesFor
<1>6. VersionOK(s)' /\ RanOK(s)' /\ AloneOK(s)'
  BY <1>1, <1>2, <1>3 DEF VersionOK, RanOK, AloneOK
<1> QED
  BY <1>5, <1>6 DEF InvFor

-----------------------------------------------------------------------------
(* The theorems.                                                           *)

\* A process stays the same: nothing happens.
LEMMA StutterStep ==
  ASSUME NEW s, InvFor(s), UNCHANGED vars
  PROVE  InvFor(s)'
BY DEF InvFor, TypesFor, VersionOK, RanOK, AloneOK, AtWork, Whole, Fresh, Busy, vars

\* The type invariant in the terms of the list.
LEMMA TypesAreFor ==
  ASSUME database \in {"management", "client"}
  PROVE  /\ Versions = VersionsOf(Statements) /\ Current = LastOf(Statements)
         /\ EffectsOf(Current) = Upto(Statements, Len(Statements) + 1)
         /\ TypesFor(Statements) <=> SchemaTypeOK
<1>1. Orderly(Statements) /\ Current = LastOf(Statements)
  BY Lists DEF LastOf
<1>2. Versions = VersionsOf(Statements)
  BY <1>1 DEF Versions, VersionsOf
<1>3. EffectsOf(Current) = Upto(Statements, Len(Statements) + 1)
  <2>1. PICK v \in Nat : v = LastOf(Statements)
    BY <1>1, Parts
  <2>2. EffectsOf(v) = Upto(Statements, FirstOf(Statements, v))
    BY Lists
  <2>3. FirstOf(Statements, v) = Len(Statements) + 1
    BY <1>1, <2>1, Parts
  <2> QED
    BY <1>1, <2>1, <2>2, <2>3
<1> QED
  BY <1>1, <1>2, <1>3 DEF TypesFor, SchemaTypeOK

\* The database as any release left it, or a new one.
LEMMA InitInv == Init => SchemaInv
<1> SUFFICES ASSUME Init PROVE SchemaInv
  OBVIOUS
<1>1. /\ database \in {"management", "client"}
      /\ version \in Versions \cup {NoTable}
      /\ effects = IF version = NoTable THEN {} ELSE EffectsOf(version)
      /\ pc = [c \in Clients |-> "off"] /\ schema = [c \in Clients |-> 0]
      /\ next = [c \in Clients |-> 0] /\ kills = 0 /\ disturbed = FALSE
  BY DEF Init
<1>2. PICK s : s = Statements
  OBVIOUS
<1>3. Orderly(s) /\ VersionsOf(s) = Versions
  BY <1>1, <1>2, Lists, TypesAreFor
<1>4. 0 \in VersionsOf(s) /\ NoTable \notin VersionsOf(s) /\ 0 \in 0 .. Len(s) + 1
  <2>1. PICK m \in Nat : m = Len(s)
    BY <1>3, Parts
  <2> QED
    BY <1>3, <2>1, Parts
<1>5. \/ version = NoTable /\ effects = {}
      \/ version \in VersionsOf(s) /\ effects = Upto(s, FirstOf(s, version))
  <2>1. CASE version = NoTable
    BY <1>1, <2>1
  <2>2. CASE version \in Versions
    <3>1. version \in Nat /\ version # NoTable
      BY <1>3, <2>2, Parts
    <3>2. EffectsOf(version) = Upto(s, FirstOf(s, version))
      BY <1>1, <1>2, <3>1, Lists
    <3> QED
      BY <1>1, <1>3, <2>2, <3>1, <3>2
  <2> QED
    BY <1>1, <2>1, <2>2
<1>6. effects \subseteq Upto(s, Len(s) + 1)
  <2>1. CASE version \in VersionsOf(s)
    <3>1. version \in Nat /\ version # NoTable
      BY <1>3, <2>1, Parts
    <3>2. PICK n \in 1..(Len(s) + 1) : n = FirstOf(s, version)
      BY <1>3, <3>1, Parts
    <3>3. effects = Upto(s, n)
      BY <1>5, <3>1, <3>2
    <3> QED
      BY <1>3, <3>3, UptoSteps
  <2>2. CASE version = NoTable
    BY <1>4, <1>5, <2>2
  <2> QED
    BY <1>5, <2>1, <2>2
<1>7. TypesFor(s)
  <2>1. /\ pc \in [Clients -> {"off", "check", "create", "insert", "read", "update", "up", "failed"}]
        /\ schema \in [Clients -> VersionsOf(s)] /\ next \in [Clients -> 0 .. Len(s) + 1]
    BY <1>1, <1>4
  <2>2. kills \in 0 .. MaxKills
    BY <1>1, SchemaAssumption
  <2>3. version \in VersionsOf(s) \cup {NoTable, NoRow}
    BY <1>5
  <2>4. disturbed \in BOOLEAN
    BY <1>1, Zenon
  <2> QED
    BY <1>6, <2>1, <2>2, <2>3, <2>4 DEF TypesFor
<1>8. VersionOK(s)
  BY <1>4, <1>5 DEF VersionOK
<1>9. RanOK(s)
  BY <1>1 DEF RanOK
<1>10. AloneOK(s)
  BY <1>1, <1>5 DEF AloneOK, AtWork, Busy, Whole, Fresh
<1> QED
  BY <1>1, <1>2, <1>7, <1>8, <1>9, <1>10 DEF SchemaInv, InvFor

\* Every step of every process keeps the invariant.
LEMMA StepInv == SchemaInv /\ [Next]_vars => SchemaInv'
<1> SUFFICES ASSUME SchemaInv, [Next]_vars PROVE SchemaInv'
  OBVIOUS
<1>1. database \in {"management", "client"} /\ InvFor(Statements)
  BY DEF SchemaInv
<1>2. PICK s : s = Statements
  OBVIOUS
<1>3. /\ Orderly(s) /\ VersionsOf(s) = Versions /\ Current = LastOf(s)
      /\ \A v \in Nat : FirstAfter(v) = FirstOf(s, v)
  BY <1>1, <1>2, Lists, TypesAreFor
<1>4. database' = database
  BY DEF Next, Start, CreateTable, InsertVersion, CheckDb, ReadSchema, Decline,
     RunStatement, StampVersion, Kill, vars
<1>5. InvFor(s)'
  <2>1. CASE UNCHANGED vars
    BY <1>1, <1>2, <2>1, StutterStep
  <2>2. ASSUME NEW c \in Clients,
               \/ Start(c) \/ CreateTable(c) \/ InsertVersion(c) \/ CheckDb(c)
               \/ ReadSchema(c) \/ Decline(c) \/ RunStatement(c) \/ StampVersion(c) \/ Kill(c)
        PROVE  InvFor(s)'
    BY <1>1, <1>2, <1>3, <2>2, StartStep, CheckDbStep, CreateTableStep, CreatedStep, ReadSchemaStep,
       DeclineStep, RunStatementStep, StampVersionStep, KillStep
  <2> QED
    BY <2>1, <2>2 DEF Next
<1>6. Statements' = s
  BY <1>2, <1>4 DEF Statements
<1> QED
  BY <1>1, <1>4, <1>5, <1>6 DEF SchemaInv

\* The inductive invariant holds, however many gnmc are started, and are killed,
\* while they bring the database up to date.
THEOREM SchemaInvariant == Spec => []SchemaInv
BY InitInv, StepInv, PTL DEF Spec

\* The upgrade's variables keep their types: no statement leaves in the database
\* what is not of the current schema.
THEOREM SchemaTypes == Spec => []SchemaTypeOK
<1>1. SchemaInv => SchemaTypeOK
  BY TypesAreFor DEF SchemaInv, InvFor
<1> QED
  BY <1>1, SchemaInvariant, PTL

\* A database whose VERSION.DB is the current one has every table and column of
\* it, although CheckSchema was killed, failed or ran twice at once: CheckSchema
\* writes VERSION.DB last, and its first statement is the first of a version
\* after the one it read.
THEOREM VersionIsAlwaysTrue == Spec => []VersionIsTrue
<1>1. SchemaInv => VersionIsTrue
  <2> SUFFICES ASSUME SchemaInv, version = Current PROVE EffectsOf(Current) \subseteq effects
    BY DEF VersionIsTrue
  <2>1. database \in {"management", "client"} /\ VersionOK(Statements)
    BY DEF SchemaInv, InvFor
  <2>2. Orderly(Statements) /\ Current = LastOf(Statements)
        /\ EffectsOf(Current) = Upto(Statements, Len(Statements) + 1)
    BY <2>1, Lists, TypesAreFor
  <2>3. /\ LastOf(Statements) \in VersionsOf(Statements)
        /\ FirstOf(Statements, LastOf(Statements)) = Len(Statements) + 1
    BY <2>2, Parts
  <2> QED
    BY <2>1, <2>2, <2>3 DEF VersionOK
<1> QED
  BY <1>1, SchemaInvariant, PTL

\* From whatever release the database is, CheckSchema's statements all run where
\* one process at a time is at it and is let finish.
THEOREM AloneSucceeds == Spec => []UpgradeAloneSucceeds
<1>1. SchemaInv => UpgradeAloneSucceeds
  BY DEF SchemaInv, InvFor, AloneOK, UpgradeAloneSucceeds
<1> QED
  BY <1>1, SchemaInvariant, PTL

==============================================================================
