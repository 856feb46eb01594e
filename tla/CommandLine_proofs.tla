--------------------------- MODULE CommandLine_proofs ---------------------------
(***************************************************************************)
(* Proofs about CommandLine, for every script of messages, any number of   *)
(* deliveries, and with and without reordering.                            *)
(***************************************************************************)
EXTENDS CommandLine, SequenceTheorems, FiniteSetTheorems, TLAPS

USE DeviceAssumption, ScriptAssumption, BoundAssumption
DEF DeviceAssumption, ScriptAssumption, BoundAssumption

(***************************************************************************)
(* The history                                                             *)
(***************************************************************************)

(* A sequence with one more entry, whatever that is. *)
LEMMA AnyAppend ==
  ASSUME NEW S, NEW q \in Seq(S), NEW e
  PROVE  /\ Append(q, e) \in Seq(S \union {e}) /\ Len(Append(q, e)) = Len(q) + 1 /\ Len(q) \in Nat
         /\ DOMAIN Append(q, e) = 1 .. (Len(q) + 1) /\ DOMAIN q = 1 .. Len(q)
         /\ \A i \in 1 .. Len(q) : Append(q, e)[i] = q[i]
         /\ Append(q, e)[Len(q) + 1] = e
<1> DEFINE T == S \union {e}
<1>1. q \in Seq(T) /\ e \in T
  <2>1. S \subseteq T
    OBVIOUS
  <2> QED
    BY <2>1, SeqMonotonic
<1> HIDE DEF T
<1>2. /\ Append(q, e) \in Seq(T) /\ Len(Append(q, e)) = Len(q) + 1 /\ Len(q) \in Nat
      /\ DOMAIN Append(q, e) = 1 .. (Len(q) + 1) /\ DOMAIN q = 1 .. Len(q)
      /\ \A i \in 1 .. Len(q) : Append(q, e)[i] = q[i]
      /\ Append(q, e)[Len(q) + 1] = e
  BY <1>1
<1> QED
  BY <1>2 DEF T

(* What is known of the variables: a message was carried out only if it came. *)
TypeInv ==
  /\ copies \in [DOMAIN Script -> Nat]
  /\ \E S : issued \in Seq(S)
  /\ \A k \in 1 .. Len(issued) : /\ issued[k].message \in DOMAIN Script
                                 /\ copies[issued[k].message] > 0

(* The history after a command is carried out. *)
LEMMA IssueEffect ==
  ASSUME TypeInv, NEW i \in DOMAIN Script, Issue(i)
  PROVE  /\ Len(issued') = Len(issued) + 1 /\ Len(issued) \in Nat
         /\ \E S : issued' \in Seq(S)
         /\ DOMAIN issued = 1 .. Len(issued) /\ DOMAIN issued' = 1 .. (Len(issued) + 1)
         /\ \A k \in 1 .. Len(issued) : issued'[k] = issued[k]
         /\ issued'[Len(issued) + 1].message = i
         /\ copies' \in [DOMAIN Script -> Nat] /\ copies'[i] = copies[i] + 1 /\ copies[i] \in Nat
         /\ \A j \in DOMAIN Script : j # i => copies'[j] = copies[j]
<1> DEFINE m == Script[i]
           e == [message |-> i,
                 effects |-> Effects(m.command, Tokens(m.args), m.via = "tcp"),
                 meant |-> Effects(m.command, Own(m), m.via = "tcp")]
<1>1. e.message = i /\ issued' = Append(issued, e) /\ copies' = [copies EXCEPT ![i] = @ + 1]
  BY DEF Issue
<1> HIDE DEF e
<1>2. PICK S : issued \in Seq(S)
  BY DEF TypeInv
<1>3. copies \in [DOMAIN Script -> Nat]
  BY DEF TypeInv
<1>4. /\ issued' \in Seq(S \union {e}) /\ Len(issued') = Len(issued) + 1 /\ Len(issued) \in Nat
      /\ DOMAIN issued' = 1 .. (Len(issued) + 1) /\ DOMAIN issued = 1 .. Len(issued)
      /\ \A k \in 1 .. Len(issued) : issued'[k] = issued[k]
      /\ issued'[Len(issued) + 1] = e
  BY <1>1, <1>2, AnyAppend
<1>5. /\ copies' \in [DOMAIN Script -> Nat] /\ copies'[i] = copies[i] + 1 /\ copies[i] \in Nat
      /\ \A j \in DOMAIN Script : j # i => copies'[j] = copies[j]
  BY <1>1, <1>3
<1> QED
  BY <1>1, <1>4, <1>5

(* A duplicate counts as a copy and leaves the history alone. *)
LEMMA DuplicateEffect ==
  ASSUME TypeInv, NEW i \in DOMAIN Script, Duplicate(i)
  PROVE  /\ issued' = issued /\ Script[i].via = "udp"
         /\ multicast_id = Script[i].id /\ multicast_id' = multicast_id
         /\ copies' \in [DOMAIN Script -> Nat] /\ copies'[i] = copies[i] + 1 /\ copies[i] \in Nat
         /\ \A j \in DOMAIN Script : j # i => copies'[j] = copies[j]
<1>1. copies \in [DOMAIN Script -> Nat] /\ copies' = [copies EXCEPT ![i] = @ + 1]
  BY DEF TypeInv, Duplicate
<1>2. /\ copies' \in [DOMAIN Script -> Nat] /\ copies'[i] = copies[i] + 1 /\ copies[i] \in Nat
      /\ \A j \in DOMAIN Script : j # i => copies'[j] = copies[j]
  BY <1>1
<1>3. /\ issued' = issued /\ Script[i].via = "udp"
      /\ multicast_id = Script[i].id /\ multicast_id' = multicast_id
  BY DEF Duplicate, IsDuplicate, NextId
<1> QED
  BY <1>2, <1>3

(* At the start nothing has come. *)
LEMMA InitTypeInv == Init => TypeInv
<1> SUFFICES ASSUME Init PROVE TypeInv
  OBVIOUS
<1>1. issued = <<>> /\ copies = [i \in DOMAIN Script |-> 0]
  BY DEF Init
<1>2. issued \in Seq({}) /\ Len(issued) = 0
  BY <1>1
<1> QED
  BY <1>1, <1>2 DEF TypeInv

(* Every step keeps to that. *)
LEMMA NextTypeInv ==
  ASSUME TypeInv, [Next]_vars
  PROVE  TypeInv'
<1>0. /\ \A k \in 1 .. Len(issued) : issued[k].message \in DOMAIN Script
      /\ \A k \in 1 .. Len(issued) : copies[issued[k].message] > 0
      /\ copies \in [DOMAIN Script -> Nat] /\ \E S : issued \in Seq(S)
  BY DEF TypeInv
<1>1. ASSUME NEW i \in DOMAIN Script, copies' \in [DOMAIN Script -> Nat],
             copies'[i] = copies[i] + 1, copies[i] \in Nat,
             \A j \in DOMAIN Script : j # i => copies'[j] = copies[j]
      PROVE  \A j \in DOMAIN Script : copies[j] > 0 \/ j = i => copies'[j] > 0
  BY <1>0, <1>1
<1>2. ASSUME NEW i \in DOMAIN Script, Duplicate(i) PROVE TypeInv'
  <2>1. /\ issued' = issued /\ copies' \in [DOMAIN Script -> Nat]
        /\ \A j \in DOMAIN Script : copies[j] > 0 => copies'[j] > 0
    BY <1>1, <1>2, DuplicateEffect
  <2> QED
    BY <1>0, <2>1 DEF TypeInv
<1>3. ASSUME NEW i \in DOMAIN Script, Issue(i) PROVE TypeInv'
  <2>1. /\ Len(issued') = Len(issued) + 1 /\ Len(issued) \in Nat
        /\ \E S : issued' \in Seq(S)
        /\ \A k \in 1 .. Len(issued) : issued'[k] = issued[k]
        /\ issued'[Len(issued) + 1].message = i
    BY <1>3, IssueEffect
  <2>2. /\ copies' \in [DOMAIN Script -> Nat]
        /\ \A j \in DOMAIN Script : copies[j] > 0 \/ j = i => copies'[j] > 0
    BY <1>1, <1>3, IssueEffect
  <2>3. ASSUME NEW k \in 1 .. Len(issued')
        PROVE  issued'[k].message \in DOMAIN Script /\ copies'[issued'[k].message] > 0
    <3>1. k \in 1 .. Len(issued) \/ k = Len(issued) + 1
      BY <2>1
    <3> QED
      BY <1>0, <2>1, <2>2, <3>1
  <2> QED
    BY <2>1, <2>2, <2>3 DEF TypeInv
<1>4. CASE UNCHANGED vars
  BY <1>0, <1>4 DEF vars, TypeInv
<1> QED
  BY <1>2, <1>3, <1>4 DEF Next

(***************************************************************************)
(* Carried out again                                                       *)
(***************************************************************************)

(* The j-th command carried out comes between the k-th and the next of the same message: it *)
(* is a reset, or a UDP message of its own.                                                 *)
Separates(j, k) == \/ Script[issued[j].message].command = "reset"
                   \/ j > k /\ Script[issued[j].message].via = "udp"

(* The last of the messages carried out by UDP is the one whose id is remembered. *)
Remembered ==
  \A k \in 1 .. Len(issued) :
    Script[issued[k].message].via = "udp" =>
      \/ multicast_id = Script[issued[k].message].id
      \/ \E j \in k .. Len(issued) : Separates(j, k)

Separated ==
  \A k, l \in 1 .. Len(issued) :
    k < l /\ issued[k].message = issued[l].message => \E j \in k .. (l - 1) : Separates(j, k)

AgainInv == Remembered /\ Separated

(* Every step keeps to that. *)
LEMMA NextAgainInv ==
  ASSUME TypeInv, AgainInv, [Next]_vars
  PROVE  AgainInv'
<1>1. ASSUME issued' = issued, multicast_id' = multicast_id PROVE AgainInv'
  BY <1>1 DEF AgainInv, Remembered, Separated, Separates
<1>2. ASSUME NEW i \in DOMAIN Script, Duplicate(i) PROVE AgainInv'
  BY <1>1, <1>2, DuplicateEffect
<1>3. ASSUME NEW i \in DOMAIN Script, Issue(i) PROVE AgainInv'
  <2>0. PICK L \in Nat : L = Len(issued)
    <3>1. Len(issued) \in Nat
      BY <1>3, IssueEffect
    <3> QED
      BY <3>1
  <2>1. /\ Len(issued') = L + 1 /\ L \in Nat
        /\ \A k \in 1 .. L : issued'[k] = issued[k]
        /\ issued'[L + 1].message = i
    BY <1>3, <2>0, IssueEffect
  <2>2. /\ \A k \in 1 .. L : issued[k].message \in DOMAIN Script
        /\ \A k \in 1 .. L : copies[issued[k].message] > 0
        /\ copies[i] \in Nat
    BY <2>0 DEF TypeInv
  <2>3. /\ Script[i].via = "tcp" => copies[i] = 0
        /\ Script[i].via = "udp" => Script[i].id # multicast_id
        /\ Script[i].command # "reset" =>
             multicast_id' = IF Script[i].via = "udp" THEN Script[i].id ELSE multicast_id
    BY <1>3 DEF Issue, Deliverable, IsDuplicate, NextId
  <2>4. Script[i].via \in {"udp", "tcp"}
    <3>1. Script[i] \in Messages
      OBVIOUS
    <3> QED
      BY <3>1 DEF Messages
  <2>5. /\ \A k \in 1 .. L : \A j \in k .. L : Separates(j, k)' <=> Separates(j, k)
        /\ \A k \in 1 .. L : Separates(L + 1, k)' <=> \/ Script[i].command = "reset"
                                                     \/ Script[i].via = "udp"
        /\ Separates(L + 1, L + 1)' <=> Script[i].command = "reset"
    BY <2>1 DEF Separates
  <2>6. ASSUME NEW k \in 1 .. L, Script[issued[k].message].via = "udp"
        PROVE  \/ multicast_id' = Script[issued[k].message].id
               \/ \E j \in k .. (L + 1) : Separates(j, k)'
    <3>1. CASE Script[i].command = "reset" \/ Script[i].via = "udp"
      <4>1. Separates(L + 1, k)' /\ L + 1 \in k .. (L + 1)
        BY <2>1, <2>5, <3>1
      <4> QED
        BY <4>1
    <3>2. CASE Script[i].command # "reset" /\ Script[i].via # "udp"
      <4>1. multicast_id' = multicast_id
        BY <2>3, <3>2
      <4>2. multicast_id = Script[issued[k].message].id \/ \E j \in k .. L : Separates(j, k)
        BY <2>0, <2>6 DEF AgainInv, Remembered
      <4>3. \A j \in k .. L : j \in k .. (L + 1)
        BY <2>1
      <4> QED
        BY <2>5, <4>1, <4>2, <4>3
    <3> QED
      BY <3>1, <3>2
  <2>7. ASSUME Script[i].via = "udp"
        PROVE  \/ multicast_id' = Script[i].id
               \/ \E j \in (L + 1) .. (L + 1) : Separates(j, L + 1)'
    <3>1. L + 1 \in (L + 1) .. (L + 1)
      BY <2>1
    <3> QED
      BY <2>3, <2>5, <2>7, <3>1
  <2>8. Remembered'
    <3>1. ASSUME NEW k \in 1 .. (L + 1), Script[issued'[k].message].via = "udp"
          PROVE  \/ multicast_id' = Script[issued'[k].message].id
                 \/ \E j \in k .. (L + 1) : Separates(j, k)'
      <4>1. k \in 1 .. L \/ k = L + 1
        BY <2>1
      <4> QED
        BY <2>1, <2>6, <2>7, <3>1, <4>1
    <3> QED
      BY <2>1, <3>1 DEF Remembered
  <2>9. ASSUME NEW k \in 1 .. L, issued[k].message = i PROVE \E j \in k .. L : Separates(j, k)
    <3>1. Script[i].via = "udp"
      BY <2>2, <2>3, <2>4, <2>9
    <3> QED
      BY <2>0, <2>3, <2>9, <3>1 DEF AgainInv, Remembered
  <2>10. ASSUME NEW k \in 1 .. (L + 1), NEW l \in 1 .. (L + 1), k < l,
                issued'[k].message = issued'[l].message
         PROVE  \E j \in k .. (l - 1) : Separates(j, k)'
    <3>1. k \in 1 .. L /\ (l \in 1 .. L \/ l = L + 1)
      BY <2>1, <2>10
    <3>2. \E j \in k .. (l - 1) : Separates(j, k)
      <4>1. CASE l \in 1 .. L
        BY <2>0, <2>1, <2>10, <3>1, <4>1 DEF AgainInv, Separated
      <4>2. CASE l = L + 1
        <5>1. l - 1 = L
          BY <2>1, <4>2
        <5> QED
          BY <2>1, <2>9, <2>10, <3>1, <4>2, <5>1
      <4> QED
        BY <3>1, <4>1, <4>2
    <3>3. \A j \in k .. (l - 1) : j \in k .. L
      BY <2>1, <3>1
    <3> QED
      BY <2>5, <3>1, <3>2, <3>3
  <2>11. Separated'
    BY <2>1, <2>10 DEF Separated
  <2> QED
    BY <2>8, <2>11 DEF AgainInv
<1>4. CASE UNCHANGED vars
  BY <1>1, <1>4 DEF vars
<1> QED
  BY <1>2, <1>3, <1>4 DEF Next

(* For every script and any deliveries: a message is carried out again only if another UDP *)
(* message was carried out in between, or the device was reset (net.c 357-367).            *)
THEOREM NoRepetition == Spec => []IssuedAgainOnlyAfterAnother
<1>1. ASSUME TypeInv, AgainInv PROVE IssuedAgainOnlyAfterAnother
  <2>1. DOMAIN issued = 1 .. Len(issued)
    BY <1>1 DEF TypeInv
  <2> QED
    BY <1>1, <2>1 DEF AgainInv, Separated, Separates, IssuedAgainOnlyAfterAnother
<1>2. ASSUME Init PROVE AgainInv
  <2>1. Len(issued) = 0
    BY <1>2 DEF Init
  <2> QED
    BY <2>1 DEF AgainInv, Remembered, Separated
<1> QED
  BY <1>1, <1>2, InitTypeInv, NextTypeInv, NextAgainInv, PTL DEF Spec

(***************************************************************************)
(* Nothing lost                                                            *)
(***************************************************************************)

(* The server gives every UDP message an id of its own, none of them that of a device *)
(* that has just started.                                                             *)
IdsDiffer ==
  \A i, j \in DOMAIN Script :
    Script[i].via = "udp" /\ Script[j].via = "udp" =>
      Script[i].id # FirstId /\ (Script[i].id = Script[j].id => i = j)

(* The id remembered is that of a message carried out, and what came was carried out. *)
LostInv ==
  /\ \/ multicast_id = FirstId
     \/ \E k \in 1 .. Len(issued) : /\ Script[issued[k].message].via = "udp"
                                    /\ Script[issued[k].message].id = multicast_id
  /\ \A i \in DOMAIN Script :
       copies[i] > 0 => \E k \in 1 .. Len(issued) : issued[k].message = i

(* Every step keeps to that. *)
LEMMA NextLostInv ==
  ASSUME IdsDiffer, TypeInv, LostInv, [Next]_vars
  PROVE  LostInv'
<1>1. ASSUME NEW i \in DOMAIN Script, Duplicate(i) PROVE LostInv'
  <2>1. /\ issued' = issued /\ Script[i].via = "udp"
        /\ multicast_id = Script[i].id /\ multicast_id' = multicast_id
        /\ \A j \in DOMAIN Script : j # i => copies'[j] = copies[j]
    BY <1>1, DuplicateEffect
  <2>2. PICK k \in 1 .. Len(issued) : /\ Script[issued[k].message].via = "udp"
                                      /\ Script[issued[k].message].id = multicast_id
    BY <2>1 DEF LostInv, IdsDiffer
  <2>3. issued[k].message = i
    <3>1. issued[k].message \in DOMAIN Script
      BY DEF TypeInv
    <3> QED
      BY <2>1, <2>2, <3>1 DEF IdsDiffer
  <2> QED
    BY <2>1, <2>3 DEF LostInv
<1>2. ASSUME NEW i \in DOMAIN Script, Issue(i) PROVE LostInv'
  <2>0. PICK L \in Nat : L = Len(issued)
    <3>1. Len(issued) \in Nat
      BY <1>2, IssueEffect
    <3> QED
      BY <3>1
  <2>1. /\ Len(issued') = L + 1
        /\ \A k \in 1 .. L : issued'[k] = issued[k] /\ k \in 1 .. (L + 1)
        /\ issued'[L + 1].message = i /\ L + 1 \in 1 .. (L + 1)
        /\ \A j \in DOMAIN Script : j # i => copies'[j] = copies[j]
    BY <1>2, <2>0, IssueEffect
  <2>2. \/ multicast_id' = FirstId
        \/ Script[i].via = "udp" /\ multicast_id' = Script[i].id
        \/ multicast_id' = multicast_id
    BY <1>2 DEF Issue, NextId
  <2>3. \/ multicast_id' = FirstId
        \/ \E k \in 1 .. (L + 1) : /\ Script[issued'[k].message].via = "udp"
                                   /\ Script[issued'[k].message].id = multicast_id'
    BY <2>0, <2>1, <2>2 DEF LostInv
  <2>4. ASSUME NEW j \in DOMAIN Script, copies'[j] > 0
        PROVE  \E k \in 1 .. (L + 1) : issued'[k].message = j
    <3>1. CASE j = i
      BY <2>1, <3>1
    <3>2. CASE j # i
      <4>1. PICK k \in 1 .. L : issued[k].message = j
        BY <2>0, <2>1, <2>4, <3>2 DEF LostInv
      <4> QED
        BY <2>1, <4>1
    <3> QED
      BY <3>1, <3>2
  <2> QED
    BY <2>1, <2>3, <2>4 DEF LostInv
<1>3. CASE UNCHANGED vars
  BY <1>3 DEF vars, LostInv
<1> QED
  BY <1>1, <1>2, <1>3 DEF Next

(* For every script whose UDP messages have ids of their own, and any deliveries: a message *)
(* that came at all was carried out (net.c 357).                                            *)
THEOREM NoneLost ==
  ASSUME IdsDiffer
  PROVE  Spec => []NothingLost
<1>1. ASSUME TypeInv, LostInv PROVE NothingLost
  <2>1. ASSUME NEW i \in DOMAIN Script, copies[i] > 0 PROVE TimesIssued(i) >= 1
    <3> DEFINE K == {k \in DOMAIN issued : issued[k].message = i}
    <3>1. PICK S : issued \in Seq(S)
      BY <1>1 DEF TypeInv
    <3>2. DOMAIN issued = 1 .. Len(issued) /\ Len(issued) \in Nat
      BY <3>1
    <3>3. K # {}
      BY <1>1, <2>1, <3>2 DEF LostInv
    <3>4. IsFiniteSet(K)
      <4> DEFINE D == DOMAIN issued
      <4>1. IsFiniteSet(D) /\ K \in SUBSET D
        BY <3>2, FS_Interval
      <4> HIDE DEF D, K
      <4> QED
        BY <4>1, FS_Subset
    <3>5. TimesIssued(i) = Cardinality(K)
      BY DEF TimesIssued
    <3> HIDE DEF K
    <3>6. Cardinality(K) # 0 /\ Cardinality(K) \in Nat
      BY <3>3, <3>4, FS_EmptySet, FS_CardinalityType
    <3> QED
      BY <3>5, <3>6
  <2> QED
    BY <2>1 DEF NothingLost
<1>2. ASSUME Init PROVE LostInv
  <2>1. copies = [i \in DOMAIN Script |-> 0] /\ multicast_id = FirstId
    BY <1>2 DEF Init
  <2>2. \A i \in DOMAIN Script : ~(copies[i] > 0)
    BY <2>1
  <2> QED
    BY <2>1, <2>2 DEF LostInv
<1>3. ASSUME TypeInv, LostInv, [Next]_vars PROVE LostInv'
  BY <1>3, NextLostInv
<1> QED
  BY <1>1, <1>2, <1>3, InitTypeInv, NextTypeInv, PTL DEF Spec

(***************************************************************************)
(* Own arguments                                                           *)
(***************************************************************************)

(* How many arguments command_handler reads for a command; two commands have one for each *)
(* device, and read that of their own.                                                    *)
Reads(command, number) ==
  CASE command \in {"home", "stepperMove", "stepperTranslate", "set_location"} -> 3
    [] command = "stepperNumTranslate" -> IF number = 0 THEN 0 ELSE number + 2
    [] command = "strandTranslate" -> 4
    [] command = "stepperWave" -> 8
    [] command = "stepperSine" -> 5
    [] command = "stepperNumSine" -> number + 6
    [] command = "stepperSineWave" -> 9
    [] command \in {"setCurrent", "setMin", "setMax", "setNumber"} -> 1
    [] OTHER -> 0

(* The numbers that the device may have. *)
Numbers == {Device.number} \union
           {Script[i].args[1] : i \in {j \in DOMAIN Script : Script[j].command = "setNumber"}}

(* Every message of the script carries all the arguments that its command reads, whichever *)
(* of its numbers the device has then.                                                     *)
Complete ==
  /\ Numbers \subseteq Nat
  /\ \A i \in DOMAIN Script : \A n \in Numbers :
       Reads(Script[i].command, n) <= Len(Script[i].args)

(* Arguments that agree up to a place have the same parts up to there. *)
LEMMA SameParts ==
  ASSUME NEW a, NEW b, NEW n \in Nat, \A k \in 1 .. n : a[k] \in Int /\ a[k] = b[k],
         NEW i \in Nat, i >= 1, NEW j \in Nat, j <= n, i <= j
  PROVE  SubSeq(a, i, j) = SubSeq(b, i, j)
<1>1. \A k \in i .. j : a[k] \in Int /\ b[k] \in Int /\ a[k] = b[k]
  OBVIOUS
<1>2. /\ SubSeq(a, i, j) \in Seq(Int) /\ Len(SubSeq(a, i, j)) = j - i + 1
      /\ \A k \in 1 .. j - i + 1 : SubSeq(a, i, j)[k] = a[i + k - 1]
  BY <1>1, SubSeqProperties
<1>3. /\ SubSeq(b, i, j) \in Seq(Int) /\ Len(SubSeq(b, i, j)) = j - i + 1
      /\ \A k \in 1 .. j - i + 1 : SubSeq(b, i, j)[k] = b[i + k - 1]
  BY <1>1, SubSeqProperties
<1> DEFINE A == SubSeq(a, i, j)
           B == SubSeq(b, i, j)
<1>4. \A k \in 1 .. j - i + 1 : i + k - 1 \in i .. j
  OBVIOUS
<1>5. /\ A \in Seq(Int) /\ B \in Seq(Int) /\ Len(A) = Len(B)
      /\ \A k \in 1 .. Len(A) : A[k] = B[k]
  BY <1>1, <1>2, <1>3, <1>4
<1> HIDE DEF A, B
<1>6. A = B
  BY <1>5, SeqEqual
<1> QED
  BY <1>6 DEF A, B

(* The first n arguments are the same numbers. *)
Agree(a, b, n) == \A k \in 1 .. n : a[k] \in Int /\ a[k] = b[k]

(* What a command does depends on the arguments it reads only. *)
LEMMA SameEffects ==
  ASSUME NEW a, NEW b, NEW n \in Nat, Agree(a, b, n),
         NEW command, NEW tcp, device.number \in Nat, Reads(command, device.number) <= n
  PROVE  Effects(command, a, tcp) = Effects(command, b, tcp)
<1>0. \A k \in 1 .. n : a[k] \in Int /\ a[k] = b[k]
  BY DEF Agree
<1>1. CASE command \in {"ota", "reset", "stop", "update"}
  BY <1>1 DEF Effects
<1>2. CASE command \in {"home", "stepperMove", "stepperTranslate"}
  <2>1. a[1] = b[1] /\ a[2] = b[2] /\ a[3] = b[3]
    <3>1. 3 <= n
      BY <1>2 DEF Reads
    <3> QED
      BY <1>0, <3>1
  <2> QED
    BY <1>2, <2>1 DEF Effects
<1>3. CASE command = "stepperNumTranslate"
  <2>1. CASE device.number = 0
    BY <1>3, <2>1 DEF Effects
  <2>2. CASE device.number # 0
    <3>1. device.number + 2 <= n
      BY <1>3, <2>2 DEF Reads
    <3>2. a[1] = b[1] /\ a[2] = b[2] /\ a[device.number + 2] = b[device.number + 2]
      BY <1>0, <3>1
    <3> QED
      BY <1>3, <3>2 DEF Effects
  <2> QED
    BY <2>1, <2>2
<1>4. CASE command = "strandTranslate"
  <2>1. a[1] = b[1] /\ a[2] = b[2] /\ a[3] = b[3] /\ a[4] = b[4]
    <3>1. 4 <= n
      BY <1>4 DEF Reads
    <3> QED
      BY <1>0, <3>1
  <2> QED
    BY <1>4, <2>1 DEF Effects
<1>5. CASE command = "stepperWave"
  <2>1. 8 <= n
    BY <1>5 DEF Reads
  <2>2. SubSeq(a, 1, 8) = SubSeq(b, 1, 8)
    BY <1>0, <2>1, SameParts
  <2> QED
    BY <1>5, <2>2 DEF Effects
<1>6. CASE command = "stepperSine"
  <2>1. a[1] = b[1] /\ a[2] = b[2] /\ a[3] = b[3] /\ a[4] = b[4] /\ a[5] = b[5]
    <3>1. 5 <= n
      BY <1>6 DEF Reads
    <3> QED
      BY <1>0, <3>1
  <2> QED
    BY <1>6, <2>1 DEF Effects
<1>7. CASE command = "stepperNumSine"
  <2>1. device.number + 6 <= n
    BY <1>7 DEF Reads
  <2>2. /\ a[1] = b[1] /\ a[2] = b[2] /\ a[3] = b[3] /\ a[4] = b[4]
        /\ a[device.number + 6] = b[device.number + 6]
    BY <1>0, <2>1
  <2> QED
    BY <1>7, <2>2 DEF Effects
<1>8. CASE command = "stepperSineWave"
  <2>1. 9 <= n
    BY <1>8 DEF Reads
  <2>2. a[8] = b[8] /\ a[9] = b[9]
    BY <1>0, <2>1
  <2>3. SubSeq(a, 1, 4) = SubSeq(b, 1, 4)
    BY <1>0, <2>1, SameParts
  <2>4. SubSeq(a, 5, 7) = SubSeq(b, 5, 7)
    BY <1>0, <2>1, SameParts
  <2> QED
    BY <1>8, <2>2, <2>3, <2>4 DEF Effects
<1>9. CASE command \in {"setCurrent", "setMin", "setMax", "setNumber"}
  <2>1. 1 <= n
    BY <1>9 DEF Reads
  <2>2. a[1] = b[1]
    BY <1>0, <2>1
  <2> QED
    BY <1>9, <2>2 DEF Effects
<1>10. CASE command = "set_location"
  <2>1. 3 <= n
    BY <1>10 DEF Reads
  <2>2. SubSeq(a, 1, 3) = SubSeq(b, 1, 3)
    BY <1>0, <2>1, SameParts
  <2> QED
    BY <1>10, <2>2 DEF Effects
<1>11. CASE command \notin {"ota", "reset", "stop", "update", "home", "stepperMove",
                            "stepperTranslate", "stepperNumTranslate", "strandTranslate",
                            "stepperWave", "stepperSine", "stepperNumSine", "stepperSineWave",
                            "setCurrent", "setMin", "setMax", "setNumber", "set_location"}
  BY <1>11 DEF Effects
<1> QED
  BY <1>1, <1>2, <1>3, <1>4, <1>5, <1>6, <1>7, <1>8, <1>9, <1>10, <1>11

(* The device has one of its numbers, and every command carried out did what its own *)
(* arguments say.                                                                     *)
OwnInv ==
  /\ device \in [min : Int, max : Int, number : Int] /\ device.number \in Numbers
  /\ \A k \in 1 .. Len(issued) : issued[k].effects = issued[k].meant

(* Every step keeps to that. *)
LEMMA NextOwnInv ==
  ASSUME Complete, TypeInv, OwnInv, [Next]_vars
  PROVE  OwnInv'
<1>1. ASSUME NEW i \in DOMAIN Script, Issue(i) PROVE OwnInv'
  <2> DEFINE m == Script[i]
             e == [message |-> i,
                   effects |-> Effects(m.command, Tokens(m.args), m.via = "tcp"),
                   meant |-> Effects(m.command, Own(m), m.via = "tcp")]
             n == Len(m.args)
  <2>1. m \in Messages /\ n <= Items /\ Items \in Nat
    OBVIOUS
  <2>2. m.args \in Seq(Int) /\ n \in Nat
    BY <2>1 DEF Messages
  <2>3. \A k \in 1 .. n : k \in 1 .. Items /\ m.args[k] \in Int
    BY <2>1, <2>2
  <2>4. \A k \in 1 .. n : Tokens(m.args)[k] = m.args[k] /\ Own(m)[k] = m.args[k]
    BY <2>3 DEF Tokens, Own
  <2>5. device.number \in Nat /\ Reads(m.command, device.number) <= n
    BY DEF OwnInv, Complete
  <2>6. /\ issued' = Append(issued, e)
        /\ device' = SetDevice(m.command, Tokens(m.args))
    BY <1>1 DEF Issue
  <2>7. e.effects = e.meant
    <3>1. \A k \in 1 .. n : Tokens(m.args)[k] \in Int /\ Tokens(m.args)[k] = Own(m)[k]
      BY <2>3, <2>4
    <3> DEFINE a == Tokens(m.args)
               b == Own(m)
               command == m.command
               tcp == m.via = "tcp"
    <3>2. /\ n \in Nat /\ device.number \in Nat /\ Reads(command, device.number) <= n
          /\ Agree(a, b, n)
      BY <2>2, <2>5, <3>1 DEF Agree
    <3> HIDE DEF n, m, a, b, command, tcp
    <3>3. Effects(command, a, tcp) = Effects(command, b, tcp)
      BY <3>2, SameEffects
    <3> QED
      BY <3>3 DEF a, b, command, tcp
  <2> HIDE DEF e
  <2>8. ASSUME NEW k \in 1 .. Len(issued') PROVE issued'[k].effects = issued'[k].meant
    <3>1. PICK S : issued \in Seq(S)
      BY DEF TypeInv
    <3>2. /\ Len(issued') = Len(issued) + 1 /\ Len(issued) \in Nat
          /\ \A l \in 1 .. Len(issued) : issued'[l] = issued[l]
          /\ issued'[Len(issued) + 1] = e
      BY <2>6, <3>1, AnyAppend
    <3>3. k \in 1 .. Len(issued) \/ k = Len(issued) + 1
      BY <3>2
    <3> QED
      BY <2>7, <3>2, <3>3 DEF OwnInv
  <2>9. device' \in [min : Int, max : Int, number : Int] /\ device'.number \in Numbers
    <3> DEFINE first == Tokens(m.args)[1]
    <3>1. device \in [min : Int, max : Int, number : Int] /\ device.number \in Numbers
      BY DEF OwnInv
    <3>2. ASSUME m.command \in {"setMin", "setMax", "setNumber"}
          PROVE  first \in Int /\ (m.command = "setNumber" => first \in Numbers)
      <4>1. Reads(m.command, device.number) = 1
        BY <3>2 DEF Reads
      <4>2. 1 \in 1 .. n
        BY <2>2, <2>5, <4>1
      <4>3. first = m.args[1] /\ first \in Int
        BY <2>3, <2>4, <4>2
      <4> QED
        BY <4>3 DEF Numbers
    <3>3. CASE m.command = "setMin"
      <4>1. device' = [device EXCEPT !.min = first] /\ first \in Int
        BY <2>6, <3>2, <3>3 DEF SetDevice
      <4> HIDE DEF first
      <4> QED
        BY <3>1, <4>1
    <3>4. CASE m.command = "setMax"
      <4>1. device' = [device EXCEPT !.max = first] /\ first \in Int
        BY <2>6, <3>2, <3>4 DEF SetDevice
      <4> HIDE DEF first
      <4> QED
        BY <3>1, <4>1
    <3>5. CASE m.command = "setNumber"
      <4>1. device' = [device EXCEPT !.number = first] /\ first \in Int /\ first \in Numbers
        BY <2>6, <3>2, <3>5 DEF SetDevice
      <4> HIDE DEF first
      <4> QED
        BY <3>1, <4>1
    <3>6. CASE m.command \notin {"setMin", "setMax", "setNumber"}
      <4>1. device' = device
        BY <2>6, <3>6 DEF SetDevice
      <4> QED
        BY <3>1, <4>1
    <3> QED
      BY <3>3, <3>4, <3>5, <3>6
  <2> QED
    BY <2>8, <2>9 DEF OwnInv
<1>2. ASSUME NEW i \in DOMAIN Script, Duplicate(i) PROVE OwnInv'
  BY <1>2 DEF Duplicate, OwnInv
<1>3. CASE UNCHANGED vars
  BY <1>3 DEF vars, OwnInv
<1> QED
  BY <1>1, <1>2, <1>3 DEF Next

(* For every script of complete messages, and any deliveries, duplicates among them: a      *)
(* command acts on the arguments of its own message (net.c 348-379).                        *)
THEOREM ActsOnOwn ==
  ASSUME Complete
  PROVE  Spec => []OwnArguments
<1>1. ASSUME TypeInv, OwnInv PROVE OwnArguments
  <2>1. DOMAIN issued = 1 .. Len(issued)
    BY <1>1 DEF TypeInv
  <2> QED
    BY <1>1, <2>1 DEF OwnInv, OwnArguments
<1>2. ASSUME Init PROVE OwnInv
  BY <1>2 DEF Init, OwnInv, Numbers
<1>3. ASSUME TypeInv, OwnInv, [Next]_vars PROVE OwnInv'
  BY <1>3, NextOwnInv
<1> QED
  BY <1>1, <1>2, <1>3, InitTypeInv, NextTypeInv, PTL DEF Spec
=============================================================================
