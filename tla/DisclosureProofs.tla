-------------------------- MODULE DisclosureProofs --------------------------
(***************************************************************************)
(* What a PASS says about the operator who issued the receipts, for logs,  *)
(* disclosures and key histories of every length.                          *)
(***************************************************************************)
EXTENDS Disclosure, VerifierProofs, FiniteSetTheorems, SequenceTheorems

-----------------------------------------------------------------------------
(* A sequence of anything, one longer.                                     *)
LEMMA OneLonger ==
    ASSUME NEW s, NEW x, IsSeq(s)
    PROVE  LET t == Append(s, x)
           IN  /\ IsSeq(t) /\ Len(s) \in Nat /\ Len(t) = Len(s) + 1
               /\ DOMAIN s = 1..Len(s) /\ DOMAIN t = 1..Len(s) + 1
               /\ \A i \in 1..Len(s) : t[i] = s[i]
               /\ t[Len(s) + 1] = x
<1> DEFINE t == Append(s, x)
<1>1. /\ IsSeq(t) /\ Len(t) = Len(s) + 1
      /\ \A i \in 1..Len(s) : t[i] = s[i]
      /\ t[Len(s) + 1] = x
  BY Appended
<1> HIDE DEF t
<1>2. /\ Len(s) \in Nat /\ DOMAIN s = 1..Len(s)
      /\ DOMAIN t = 1..Len(t)
  BY <1>1, SeqDomain
<1>. QED  BY <1>1, <1>2 DEF t

-----------------------------------------------------------------------------
(* The operator's key set: one key and at most one more, each with a name  *)
(* of its own.                                                             *)
Times == {Time(t) : t \in Nat}

KeyEntry ==
    [kid : {KID, Text("tenant-key-2026-06")}, alg : {Text("EdDSA")},
     x : {PRIVATE_KEY, Text("key2")}, not_before : Times, not_after : Times,
     status : {Text("active"), Text("retired")} \cup Revoked,
     revocation_time : {Null} \cup Times]

KeyListOK ==
    /\ key_list \in Seq(KeyEntry) /\ Len(key_list) \in {1, 2}
    /\ \A k \in DOMAIN key_list :
          key_list[k].kid = IF k = 1 THEN KID ELSE Text("tenant-key-2026-06")

(* From the tick t on, a receipt under the key k must not pass ...         *)
Ended(k, t) ==
    LET key == key_list[k]
    IN  /\ ~InForce(k)
        /\ \/ \E c \in 0..t : key.not_after = Time(c)
           \/ /\ key.status = Text("revoked_future_only")
              /\ \E c \in 0..t : key.revocation_time = Time(c)
           \/ key.status = Text("revoked_all")

(* ... and a receipt of the tick t must, unless the key was revoked for    *)
(* everything, or ran out.                                                 *)
Lasting(k, t) ==
    LET key == key_list[k]
    IN  /\ \E c \in 0..t : key.not_before = Time(c)
        /\ \E c \in Nat : /\ key.not_after = Time(c)
                          /\ c = not_after \/ t < c
        /\ key.status = Text("revoked_future_only") =>
              \E c \in Nat : t < c /\ key.revocation_time = Time(c)
        /\ key.status \notin Revoked => key.revocation_time = Null

(* The receipts are issued one in each tick.                               *)
TickOf(i) == not_before + i - 1

IssuedOK ==
    /\ IsSeq(issued)
    /\ clock = TickOf(Len(issued) + 1)
    /\ \A i \in DOMAIN issued :
          /\ issued[i].key \in DOMAIN key_list
          /\ IF issued[i].in_force THEN Lasting(issued[i].key, TickOf(i))
                                   ELSE Ended(issued[i].key, TickOf(i))

(* A key in force has not been touched since it was made.                  *)
Open(k, t) ==
    LET key == key_list[k]
    IN  /\ InForce(k) /\ key.revocation_time = Null
        /\ \E c \in 0..t : key.not_before = Time(c)
        /\ key.not_after = Time(not_after)

KeysOK == \A k \in DOMAIN key_list : Open(k, clock) \/ Ended(k, clock)

(* The body that Issue gives the j-th receipt of a log.                    *)
IssuedBody(j, prev, t) == [make_receipt_body(j, prev) EXCEPT !.ts = Time(t)]

IsHistory(h) ==
    /\ h \in Seq(DOMAIN issued) /\ Len(h) <= Len(issued)
    /\ \A j \in DOMAIN h :
          BodyAt(h[j]) = IssuedBody(j, IF j = 1 THEN Genesis
                                       ELSE receipt_hash(BodyAt(h[j - 1])),
                                    TickOf(h[j]))

Histories == former \cup {log}

HistoriesOK ==
    /\ \A h \in Histories : IsHistory(h)
    /\ \A i \in DOMAIN issued :
          \E h \in Histories : \E j \in DOMAIN h : h[j] = i

OperatorInv == KeyListOK /\ IssuedOK /\ KeysOK /\ HistoriesOK

-----------------------------------------------------------------------------
(* The operator begins with one key in force and an empty log.             *)
LEMMA OperatorInit == DisclosureInit => OperatorInv
<1>. SUFFICES ASSUME DisclosureInit PROVE OperatorInv
  OBVIOUS
<1>0. /\ key_list = <<key_entry>> /\ issued = <<>> /\ log = <<>>
      /\ former = {} /\ clock = not_before
  BY DEF DisclosureInit
<1>1. KeyListOK
  <2>1. key_entry \in KeyEntry
    BY DEF key_entry, KeyEntry, Times, not_before, not_after
  <2>. QED  BY <1>0, <2>1 DEF KeyListOK, key_entry
<1>2. IssuedOK
  BY <1>0 DEF IssuedOK, IsSeq, TickOf, not_before
<1>3. KeysOK
  <2>1. key_list[1] = key_entry /\ DOMAIN key_list = {1}
    BY <1>0
  <2>2. Open(1, clock)
    BY <1>0, <2>1 DEF Open, InForce, key_entry, not_before
  <2>. QED  BY <2>1, <2>2 DEF KeysOK
<1>4. HistoriesOK
  <2>1. IsHistory(<<>>)
    BY <1>0 DEF IsHistory
  <2>. QED  BY <1>0, <2>1 DEF HistoriesOK, Histories
<1>. QED  BY <1>1, <1>2, <1>3, <1>4 DEF OperatorInv

-----------------------------------------------------------------------------
(* A key that is in force gives lasting receipts.                          *)
LEMMA OpenLasts ==
    ASSUME NEW k, NEW t, Open(k, t)
    PROVE  Lasting(k, t)
<1>1. Text("active") \notin Revoked
  BY DEF Text, Revoked
<1>2. not_after \in Nat
  BY DEF not_after
<1>. QED  BY <1>1, <1>2 DEF Open, Lasting, InForce, Revoked

(* The ticks and the keys of the receipts issued so far.                   *)
LEMMA IssuedFacts ==
    ASSUME OperatorInv
    PROVE  /\ Len(issued) \in Nat /\ DOMAIN issued = 1..Len(issued)
           /\ clock \in Nat /\ clock = not_before + Len(issued)
           /\ \A i \in DOMAIN issued : TickOf(i) \in Nat /\ TickOf(i) < clock
           /\ Len(key_list) \in {1, 2} /\ DOMAIN key_list = 1..Len(key_list)
           /\ \A k \in DOMAIN key_list : key_list[k] \in KeyEntry
<1>1. Len(issued) \in Nat /\ DOMAIN issued = 1..Len(issued)
  BY OneLonger DEF OperatorInv, IssuedOK
<1>2. key_list \in Seq(KeyEntry) /\ Len(key_list) \in {1, 2}
  BY DEF OperatorInv, KeyListOK
<1>3. DOMAIN key_list = 1..Len(key_list)
      /\ \A k \in DOMAIN key_list : key_list[k] \in KeyEntry
  BY <1>2, LenProperties
<1>. QED  BY <1>1, <1>2, <1>3
          DEF OperatorInv, IssuedOK, TickOf, not_before

(* A history of fewer receipts is one of more.                             *)
LEMMA HistoryLasts ==
    ASSUME OperatorInv, NEW h, IsHistory(h), NEW x, issued' = Append(issued, x)
    PROVE  IsHistory(h)'
<1>1. /\ Len(issued) \in Nat /\ Len(issued') = Len(issued) + 1
      /\ DOMAIN issued = 1..Len(issued) /\ DOMAIN issued' = 1..Len(issued) + 1
      /\ \A i \in 1..Len(issued) : issued'[i] = issued[i]
  BY OneLonger DEF OperatorInv, IssuedOK
<1>2. h \in Seq(DOMAIN issued')
  BY <1>1, SeqMonotonic DEF IsHistory
<1>3. Len(h) \in Nat /\ DOMAIN h = 1..Len(h)
      /\ \A j \in DOMAIN h : h[j] \in DOMAIN issued
  BY DEF IsHistory
<1>4. \A j \in DOMAIN h : BodyAt(h[j])' = BodyAt(h[j])
  BY <1>1, <1>3 DEF BodyAt
<1>5. \A j \in DOMAIN h : j # 1 => j - 1 \in DOMAIN h
  BY <1>3
<1>6. Len(h) <= Len(issued')
  BY <1>1, <1>3 DEF IsHistory
<1>. QED  BY <1>2, <1>4, <1>5, <1>6 DEF IsHistory

(* Issuing a receipt.                                                      *)
LEMMA IssueStep ==
    ASSUME OperatorInv, NEW k \in DOMAIN key_list, Issue(k)
    PROVE  OperatorInv'
<1> DEFINE n    == Len(issued)
           prev == IF log = <<>> THEN Genesis
                   ELSE receipt_hash(BodyAt(log[Len(log)]))
           new  == [body |-> IssuedBody(Len(log) + 1, prev, clock), key |-> k,
                    in_force |-> InForce(k)]
<1>1. /\ issued' = Append(issued, new) /\ log' = Append(log, Len(issued'))
      /\ clock' = clock + 1 /\ UNCHANGED <<former, key_list>>
  BY DEF Issue, IssuedBody
<1>2. /\ n \in Nat /\ Len(issued') = n + 1 /\ IsSeq(issued')
      /\ DOMAIN issued = 1..n /\ DOMAIN issued' = 1..n + 1
      /\ \A i \in 1..n : issued'[i] = issued[i]
      /\ issued'[n + 1] = new
  BY <1>1, OneLonger DEF OperatorInv, IssuedOK
<1>3. clock = TickOf(n + 1) /\ clock \in Nat
  BY IssuedFacts DEF OperatorInv, IssuedOK
<1>4. KeyListOK'
  BY <1>1 DEF OperatorInv, KeyListOK
<1>5. IssuedOK'
  <2>1. clock' = TickOf(n + 2)
    BY <1>1, <1>2, <1>3 DEF TickOf, not_before
  <2>2. ASSUME NEW i \in 1..n + 1
        PROVE  /\ issued'[i].key \in DOMAIN key_list
               /\ IF issued'[i].in_force
                  THEN Lasting(issued'[i].key, TickOf(i))
                  ELSE Ended(issued'[i].key, TickOf(i))
    <3>1. CASE i \in 1..n
      BY <1>2, <3>1 DEF OperatorInv, IssuedOK
    <3>2. CASE i = n + 1
      <4>1. Open(k, clock) \/ Ended(k, clock)
        BY DEF OperatorInv, KeysOK
      <4>2. IF InForce(k) THEN Lasting(k, clock) ELSE Ended(k, clock)
        BY <4>1, OpenLasts DEF Open, Ended
      <4>. QED  BY <1>2, <1>3, <3>2, <4>2
    <3>. QED  BY <1>2, <3>1, <3>2
  <2>3. ASSUME NEW i, NEW t
        PROVE  Lasting(i, t)' = Lasting(i, t) /\ Ended(i, t)' = Ended(i, t)
    BY <1>1 DEF Lasting, Ended, InForce
  <2>. QED  BY <1>1, <1>2, <2>1, <2>2, <2>3 DEF IssuedOK, TickOf
<1>6. KeysOK'
  <2>1. \A i \in DOMAIN key_list : Ended(i, clock) => Ended(i, clock + 1)
    BY <1>3 DEF Ended
  <2>2. \A i \in DOMAIN key_list : Open(i, clock) => Open(i, clock + 1)
    BY <1>3 DEF Open
  <2>. QED  BY <1>1, <2>1, <2>2
            DEF OperatorInv, KeysOK, Open, Ended, InForce
<1>7. HistoriesOK'
  <2>1. \A h \in Histories : IsHistory(h)'
    BY <1>1, HistoryLasts DEF OperatorInv, HistoriesOK
  <2>2. IsHistory(log)
    BY DEF OperatorInv, HistoriesOK, Histories
  <2>3. /\ log \in Seq(1..n) /\ Len(log) \in Nat /\ DOMAIN log = 1..Len(log)
        /\ Len(log) <= n /\ \A j \in DOMAIN log : log[j] \in 1..n
    BY <1>2, <2>2 DEF IsHistory
  <2>4. /\ log' \in Seq(1..n + 1) /\ Len(log') = Len(log) + 1
        /\ DOMAIN log' = 1..Len(log) + 1
        /\ \A j \in 1..Len(log) : log'[j] = log[j]
        /\ log'[Len(log) + 1] = n + 1
    <3>1. log \in Seq(1..n + 1)
      BY <1>2, <2>3, SeqMonotonic
    <3>. QED  BY <1>1, <1>2, <2>3, <3>1
  <2>5. ASSUME NEW h, h = log'
        PROVE  IsHistory(h)'
    <3>1. ASSUME NEW j \in 1..Len(log) + 1
          PROVE  BodyAt(h[j])' = IssuedBody(j,
                     IF j = 1 THEN Genesis
                     ELSE receipt_hash(BodyAt(h[j - 1])'), TickOf(h[j]))
      <4>1. CASE j \in 1..Len(log)
        <5>1. j # 1 => j - 1 \in 1..Len(log)
          BY <2>3, <4>1
        <5>2. h[j] = log[j] /\ (j # 1 => h[j - 1] = log[j - 1])
          BY <2>4, <2>5, <4>1, <5>1
        <5>3. /\ issued'[h[j]] = issued[log[j]]
              /\ j # 1 => issued'[h[j - 1]] = issued[log[j - 1]]
          BY <1>2, <2>3, <4>1, <5>1, <5>2
        <5>4. BodyAt(log[j]) = IssuedBody(j,
                     IF j = 1 THEN Genesis
                     ELSE receipt_hash(BodyAt(log[j - 1])), TickOf(log[j]))
          BY <2>2, <2>3, <4>1 DEF IsHistory
        <5>. QED  BY <5>2, <5>3, <5>4 DEF BodyAt
      <4>2. CASE j = Len(log) + 1
        <5>1. j = 1 <=> log = <<>>
          BY <2>3, <4>2
        <5>2. j # 1 => BodyAt(h[j - 1])' = BodyAt(log[Len(log)])
          <6>1. j # 1 => j - 1 = Len(log) /\ Len(log) \in 1..Len(log)
            BY <2>3, <4>2
          <6>. QED  BY <1>2, <2>3, <2>4, <2>5, <6>1 DEF BodyAt
        <5>3. BodyAt(h[j])' = IssuedBody(j, prev, TickOf(h[j]))
          BY <1>2, <1>3, <2>4, <2>5, <4>2 DEF BodyAt
        <5>. QED  BY <5>1, <5>2, <5>3
      <4>. QED  BY <2>3, <4>1, <4>2
    <3>2. /\ h \in Seq(DOMAIN issued') /\ Len(h) <= Len(issued')
          /\ DOMAIN h = 1..Len(log) + 1
      BY <1>2, <2>3, <2>4, <2>5
    <3>. QED  BY <3>1, <3>2 DEF IsHistory, TickOf, BodyAt
  <2>6. \A h \in Histories' : IsHistory(h)'
    BY <1>1, <2>1, <2>5 DEF Histories
  <2>7. ASSUME NEW i \in DOMAIN issued'
        PROVE  \E h \in Histories' : \E j \in DOMAIN h : h[j] = i
    <3>1. CASE i \in 1..n
      <4>1. PICK h \in Histories : \E j \in DOMAIN h : h[j] = i
        BY <1>2, <3>1 DEF OperatorInv, HistoriesOK
      <4>2. CASE h \in former
        BY <1>1, <4>1, <4>2 DEF Histories
      <4>3. CASE h = log
        <5>1. PICK j \in 1..Len(log) : log[j] = i
          BY <2>3, <4>1, <4>3
        <5>2. log'[j] = i /\ j \in DOMAIN log'
          BY <2>3, <2>4, <5>1
        <5>. QED  BY <5>2 DEF Histories
      <4>. QED  BY <4>1, <4>2, <4>3 DEF Histories
    <3>2. CASE i = n + 1
      BY <2>3, <2>4, <3>2 DEF Histories
    <3>. QED  BY <1>2, <3>1, <3>2
  <2>. QED  BY <2>6, <2>7 DEF HistoriesOK
<1>. QED  BY <1>4, <1>5, <1>6, <1>7 DEF OperatorInv

(* Only the key set changes: the logs stay the operator's histories.       *)
LEMMA LogsKept ==
    ASSUME OperatorInv, UNCHANGED <<issued, log, former>>
    PROVE  HistoriesOK'
BY DEF OperatorInv, HistoriesOK, Histories, IsHistory, BodyAt

(* An entry of another status is an entry.                                 *)
LEMMA EntryExcept ==
    ASSUME NEW key \in KeyEntry, NEW t \in Nat,
           NEW status \in {Text("active"), Text("retired")} \cup Revoked
    PROVE  /\ [key EXCEPT !.status = status, !.not_after = Time(t)] \in KeyEntry
           /\ [key EXCEPT !.status = status, !.revocation_time = Time(t)]
                \in KeyEntry
BY DEF KeyEntry, Times

(* Revoking a key.                                                         *)
LEMMA RevokeStep ==
    ASSUME OperatorInv, NEW k \in DOMAIN key_list, NEW status \in Revoked,
           Revoke(k, status)
    PROVE  OperatorInv'
<1> DEFINE key == [key_list[k] EXCEPT !.status = status,
                                      !.revocation_time = Time(clock)]
<1>1. /\ UNCHANGED <<issued, log, former, clock>>
      /\ key_list[k].status \notin Revoked
      /\ key_list' = [key_list EXCEPT ![k] = key]
  BY DEF Revoke
<1>2. /\ clock \in Nat /\ DOMAIN key_list = 1..Len(key_list)
      /\ Len(key_list) \in Nat
      /\ \A i \in DOMAIN key_list : key_list[i] \in KeyEntry
      /\ \A i \in DOMAIN issued : TickOf(i) \in Nat /\ TickOf(i) < clock
  BY IssuedFacts
<1>3. /\ key \in KeyEntry /\ key.kid = key_list[k].kid
      /\ key.not_before = key_list[k].not_before
      /\ key.not_after = key_list[k].not_after
      /\ key.status = status /\ key.revocation_time = Time(clock)
  BY <1>2, EntryExcept, ZenonT(60) DEF KeyEntry
<1>4. /\ DOMAIN key_list' = DOMAIN key_list
      /\ \A i \in DOMAIN key_list :
            key_list'[i] = IF i = k THEN key ELSE key_list[i]
  BY <1>1
<1>5. KeyListOK'
  <2>1. key_list' \in Seq(KeyEntry) /\ Len(key_list') = Len(key_list)
    BY <1>1, <1>2, <1>3, ExceptSeq DEF OperatorInv, KeyListOK
  <2>2. /\ Len(key_list) \in {1, 2}
        /\ \A i \in DOMAIN key_list :
              key_list[i].kid = IF i = 1 THEN KID ELSE Text("tenant-key-2026-06")
    BY DEF OperatorInv, KeyListOK
  <2> HIDE DEF key
  <2>3. \A i \in DOMAIN key_list' : key_list'[i].kid = key_list[i].kid
    BY <1>3, <1>4
  <2>. QED  BY <1>4, <2>1, <2>2, <2>3 DEF KeyListOK
<1>6. /\ Text("active") \notin Revoked
      /\ Text("revoked_all") # Text("revoked_future_only")
  BY DEF Text, Revoked
<1>7. ASSUME NEW t \in Nat, NEW i \in DOMAIN key_list
      PROVE  /\ Lasting(i, t) /\ t < clock => Lasting(i, t)'
             /\ Ended(i, t) => Ended(i, t)'
  <2>1. CASE i # k
    BY <1>4, <2>1 DEF Lasting, Ended, InForce
  <2>2. CASE i = k
    <3>1. Lasting(k, t) /\ t < clock => Lasting(k, t)'
      BY <1>2, <1>3, <1>4, <1>6 DEF Lasting, Revoked
    <3>2. Ended(k, t) => Ended(k, t)'
      BY <1>1, <1>3, <1>4, <1>6 DEF Ended, InForce, Revoked
    <3>. QED  BY <2>2, <3>1, <3>2
  <2>. QED  BY <2>1, <2>2
<1>8. IssuedOK'
  BY <1>1, <1>2, <1>4, <1>7, SMTT(30)
     DEF OperatorInv, IssuedOK, IsSeq, TickOf
<1>9. KeysOK'
  <2>1. Ended(k, clock)'
    BY <1>1, <1>2, <1>3, <1>4, <1>6 DEF Ended, InForce, Revoked
  <2>2. \A i \in DOMAIN key_list : i # k /\ Open(i, clock) => Open(i, clock)'
    BY <1>1, <1>4 DEF Open, InForce
  <2>3. \A i \in DOMAIN key_list : i # k /\ Ended(i, clock) => Ended(i, clock)'
    BY <1>1, <1>4 DEF Ended, InForce
  <2>. QED  BY <1>4, <2>1, <2>2, <2>3 DEF OperatorInv, KeysOK
<1>. QED  BY <1>1, <1>5, <1>8, <1>9, LogsKept DEF OperatorInv

(* Rotating to the second key.                                             *)
LEMMA RotateStep ==
    ASSUME OperatorInv, Rotate
    PROVE  OperatorInv'
<1> DEFINE old == IF InForce(1)
                  THEN [key_list[1] EXCEPT !.status = Text("retired"),
                                           !.not_after = Time(clock)]
                  ELSE key_list[1]
           new == [key_entry EXCEPT !.kid = Text("tenant-key-2026-06"),
                                    !.x = Text("key2"),
                                    !.not_before = Time(clock)]
<1>1. /\ UNCHANGED <<issued, log, former, clock>>
      /\ Len(key_list) = 1 /\ key_list' = <<old, new>>
  BY DEF Rotate
<1>2. /\ clock \in Nat /\ DOMAIN key_list = {1} /\ key_list[1] \in KeyEntry
      /\ \A i \in DOMAIN issued : TickOf(i) \in Nat /\ TickOf(i) < clock
  BY <1>1, IssuedFacts
<1>3. DOMAIN key_list' = {1, 2} /\ key_list'[1] = old /\ key_list'[2] = new
  BY <1>1
<1>4. /\ old \in KeyEntry /\ old.kid = key_list[1].kid
      /\ old.not_before = key_list[1].not_before
      /\ old.revocation_time = key_list[1].revocation_time
  BY <1>2, EntryExcept, ZenonT(30) DEF KeyEntry
<1>5. IF InForce(1)
      THEN old.status = Text("retired") /\ old.not_after = Time(clock)
      ELSE old = key_list[1]
  BY <1>2 DEF KeyEntry
<1>6. /\ new \in KeyEntry /\ new.kid = Text("tenant-key-2026-06")
      /\ new.status = Text("active") /\ new.revocation_time = Null
      /\ new.not_before = Time(clock) /\ new.not_after = Time(not_after)
  BY <1>2 DEF key_entry, KeyEntry, Times, not_before, not_after
<1> HIDE DEF old, new
<1>7. KeyListOK'
  BY <1>1, <1>2, <1>4, <1>6 DEF OperatorInv, KeyListOK
<1>8. /\ Text("retired") # Text("active") /\ Text("retired") \notin Revoked
      /\ Text("active") \notin Revoked
  BY DEF Text, Revoked
<1>9. ASSUME NEW t \in Nat
      PROVE  /\ Lasting(1, t) /\ t < clock => Lasting(1, t)'
             /\ Ended(1, t) => Ended(1, t)'
  <2>1. CASE InForce(1)
    <3>1. ~Ended(1, t)
      BY <2>1 DEF Ended
    <3>2. Lasting(1, t) /\ t < clock => Lasting(1, t)'
      BY <1>2, <1>3, <1>4, <1>5, <1>8, <2>1 DEF Lasting, InForce, Revoked
    <3>. QED  BY <3>1, <3>2
  <2>2. CASE ~InForce(1)
    BY <1>3, <1>5, <2>2 DEF Lasting, Ended, InForce
  <2>. QED  BY <2>1, <2>2
<1>10. IssuedOK'
  BY <1>1, <1>2, <1>3, <1>9, SMTT(30)
     DEF OperatorInv, IssuedOK, IsSeq, TickOf
<1>11. KeysOK'
  <2>1. Open(2, clock)'
    BY <1>1, <1>2, <1>3, <1>6 DEF Open, InForce
  <2>2. Ended(1, clock)'
    <3>1. CASE InForce(1)
      <4>1. ~InForce(1)'
        BY <1>3, <1>5, <1>8, <3>1 DEF InForce
      <4>2. clock' \in 0..clock' /\ key_list'[1].not_after = Time(clock')
        BY <1>1, <1>2, <1>3, <1>5, <3>1
      <4>. QED  BY <4>1, <4>2 DEF Ended
    <3>2. CASE ~InForce(1)
      BY <1>1, <1>2, <1>3, <1>5, <3>2
      DEF OperatorInv, KeysOK, Open, Ended, InForce
    <3>. QED  BY <3>1, <3>2
  <2>. QED  BY <1>3, <2>1, <2>2 DEF KeysOK
<1>. QED  BY <1>1, <1>7, <1>10, <1>11, LogsKept DEF OperatorInv

(* Cutting the log back.                                                   *)
LEMMA RollbackStep ==
    ASSUME OperatorInv, NEW n \in 0..Len(log) - 1, Rollback(n)
    PROVE  OperatorInv'
<1>1. /\ UNCHANGED <<issued, key_list, clock>>
      /\ former' = former \cup {log} /\ log' = SubSeq(log, 1, n)
  BY DEF Rollback
<1>2. KeyListOK' /\ IssuedOK' /\ KeysOK'
  BY <1>1 DEF OperatorInv, KeyListOK, IssuedOK, KeysOK, Open, Ended, Lasting,
              InForce, IsSeq
<1>3. IsHistory(log)
  BY DEF OperatorInv, HistoriesOK, Histories
<1>4. /\ Len(log) \in Nat /\ DOMAIN log = 1..Len(log)
      /\ \A j \in 1..Len(log) : log[j] \in DOMAIN issued
  BY <1>3, LenProperties DEF IsHistory
<1>5. /\ log' \in Seq(DOMAIN issued) /\ Len(log') = n /\ DOMAIN log' = 1..n
      /\ \A j \in 1..n : log'[j] = log[j]
  <2>1. n \in Int /\ \A j \in 1..n : log[j] \in DOMAIN issued
    BY <1>4
  <2>2. /\ SubSeq(log, 1, n) \in Seq(DOMAIN issued)
        /\ Len(SubSeq(log, 1, n)) = IF 1 <= n THEN n - 1 + 1 ELSE 0
        /\ \A j \in 1..n - 1 + 1 : SubSeq(log, 1, n)[j] = log[1 + j - 1]
    BY <2>1, SubSeqProperties
  <2>3. Len(log') = n
    BY <1>1, <2>2, <1>4
  <2>. QED  BY <1>1, <1>4, <2>2, <2>3
<1>6. ASSUME NEW h, h = log'
      PROVE  IsHistory(h)
  <2>1. Len(issued) \in Nat
    BY IssuedFacts
  <2>2. \A j \in 1..n : j # 1 => j - 1 \in 1..n
    BY <1>4
  <2>. QED  BY <1>3, <1>4, <1>5, <1>6, <2>1, <2>2 DEF IsHistory
<1>7. \A h \in Histories' : IsHistory(h)'
  <2>1. \A h \in Histories' : IsHistory(h)
    BY <1>1, <1>6 DEF OperatorInv, HistoriesOK, Histories
  <2>. QED  BY <1>1, <2>1 DEF IsHistory, BodyAt
<1>8. Histories \subseteq Histories'
  BY <1>1 DEF Histories
<1>9. HistoriesOK'
  BY <1>1, <1>7, <1>8 DEF OperatorInv, HistoriesOK
<1>. QED  BY <1>2, <1>9 DEF OperatorInv

(* Whatever the operator does keeps the invariant.                         *)
LEMMA OperatorStep == OperatorInv /\ [Operate]_operator => OperatorInv'
<1>. SUFFICES ASSUME OperatorInv, [Operate]_operator PROVE OperatorInv'
  OBVIOUS
<1>1. ASSUME NEW start \in DOMAIN log, Anchor(start)
      PROVE  OperatorInv'
  BY <1>1, LogsKept
  DEF Anchor, OperatorInv, KeyListOK, IssuedOK, KeysOK, Open, Ended, Lasting,
      InForce, IsSeq
<1>2. CASE UNCHANGED operator
  BY <1>2, LogsKept
  DEF operator, OperatorInv, KeyListOK, IssuedOK, KeysOK, Open, Ended, Lasting,
      InForce, IsSeq
<1>. QED  BY <1>1, <1>2, IssueStep, RotateStep, RevokeStep, RollbackStep
          DEF Operate

-----------------------------------------------------------------------------
(* An issued receipt is the one of its number in some history, and what    *)
(* its envelope holds.                                                     *)
LEMMA IssuedReceipt ==
    ASSUME OperatorInv, NEW i \in DOMAIN issued
    PROVE  \E h \in Histories : \E j \in DOMAIN h :
              /\ h[j] = i /\ j \in Nat \ {0}
              /\ BodyAt(i) = IssuedBody(j, IF j = 1 THEN Genesis
                                ELSE receipt_hash(BodyAt(h[j - 1])), TickOf(i))
<1>0. PICK h \in Histories : \E j \in DOMAIN h : h[j] = i
  BY DEF OperatorInv, HistoriesOK
<1>1. PICK j \in DOMAIN h : h[j] = i
  BY <1>0
<1>2. IsHistory(h)
  BY DEF OperatorInv, HistoriesOK
<1>3. j \in Nat \ {0}
  BY <1>2, LenProperties DEF IsHistory
<1>. QED  BY <1>1, <1>2, <1>3 DEF IsHistory

LEMMA IssuedEnvelope ==
    ASSUME NEW i
    PROVE  LET k == issued[i].key
               e == EnvelopeOf(i)
           IN  /\ EnvelopeErrors(e) = {} /\ BodyOf(e) = BodyAt(i)
               /\ GetOr(SigOf(e), "alg", Empty) = Text("EdDSA")
               /\ GetOr(SigOf(e), "kid", Empty) = key_list[k].kid
               /\ GetOr(SigOf(e), "value", Empty)
                     = SignatureBy(key_list[k].x, BodyAt(i))
BY DEF EnvelopeOf, sign_body, Enveloped, Sig, Obj, Members, IsObj, Get, GetOr,
       EnvelopeErrors, BodyOf, SigOf, PrivateKey

LEMMA IssuedFields ==
    \A j, prev, t :
        LET body == IssuedBody(j, prev, t)
        IN  /\ DOMAIN body = RECEIPT_BODY_REQUIRED_FIELDS
            /\ body.seq = Decimal(j) /\ body.ts = Time(t)
            /\ body.tenant = TENANT /\ body.prev_receipt = prev
            /\ body.v = Text("1") /\ body.decision = Text("approve")
            /\ body.reasons = List(<<Text("auto_approve")>>)
            /\ body.request_digest = Digest(<<"request", j>>)
            /\ body.policy_version = Digest(<<"policy", 1>>)
BY DEF IssuedBody, make_receipt_body, RECEIPT_BODY_REQUIRED_FIELDS

(* The receipts of one history are issued in different ticks, so a body    *)
(* tells which receipt it is of.                                           *)
LEMMA BodyTells ==
    ASSUME OperatorInv, NEW i \in DOMAIN issued, NEW m \in DOMAIN issued,
           BodyAt(i) = BodyAt(m)
    PROVE  i = m
<1>1. \A n \in DOMAIN issued : BodyAt(n).ts = Time(TickOf(n))
  <2>. SUFFICES ASSUME NEW n \in DOMAIN issued
                PROVE  BodyAt(n).ts = Time(TickOf(n))
    OBVIOUS
  <2>1. \E j, prev : BodyAt(n) = IssuedBody(j, prev, TickOf(n))
    BY IssuedReceipt
  <2>. QED  BY <2>1, IssuedFields
<1>2. TickOf(i) = TickOf(m)
  BY <1>1 DEF Time
<1>3. i \in Nat /\ m \in Nat
  BY IssuedFacts
<1>. QED  BY <1>2, <1>3 DEF TickOf, not_before

(* The receipt at a position of a history has its number.                  *)
LEMMA HistoryReceipt ==
    ASSUME OperatorInv, NEW h \in Histories, NEW j \in DOMAIN h
    PROVE  /\ h[j] \in DOMAIN issued /\ j \in 1..Len(h) /\ Len(h) \in Nat
           /\ Len(h) <= Len(issued)
           /\ Number(EnvelopeOf(h[j])) = j
           /\ BodyAt(h[j])["seq"] = Decimal(j)
           /\ BodyOf(EnvelopeOf(h[j])) = BodyAt(h[j])
           /\ BodyAt(h[j])["prev_receipt"]
                 = IF j = 1 THEN Genesis ELSE HashOf(BodyAt(h[j - 1]))
<1> DEFINE prev == IF j = 1 THEN Genesis ELSE receipt_hash(BodyAt(h[j - 1]))
<1>1. IsHistory(h)
  BY DEF OperatorInv, HistoriesOK
<1>2. /\ h[j] \in DOMAIN issued /\ j \in 1..Len(h) /\ Len(h) \in Nat
      /\ Len(h) <= Len(issued)
  BY <1>1, LenProperties DEF IsHistory
<1>3. BodyAt(h[j]) = IssuedBody(j, prev, TickOf(h[j]))
  BY <1>1 DEF IsHistory
<1>4. BodyAt(h[j])["seq"] = Decimal(j) /\ BodyAt(h[j])["prev_receipt"] = prev
  BY <1>3, IssuedFields
<1>5. BodyOf(EnvelopeOf(h[j])) = BodyAt(h[j])
  BY IssuedEnvelope
<1>6. Number(EnvelopeOf(h[j])) = j
  BY <1>4, <1>5 DEF Number, IntOf, Decimal
<1>. QED  BY <1>2, <1>4, <1>5, <1>6 DEF receipt_hash

-----------------------------------------------------------------------------
(* What was anchored are issued receipts with the numbers from the first   *)
(* on, also after a rollback.                                              *)
AnchoredOK ==
    /\ IsSeq(anchored.part) /\ anchored.start \in Nat
    /\ anchored # Nothing => Len(anchored.part) > 0
    /\ \A i \in DOMAIN anchored.part :
          /\ anchored.part[i] \in DOMAIN issued
          /\ BodyAt(anchored.part[i])["seq"] = Decimal(anchored.start + i - 1)

LEMMA AnchoredStep ==
    ASSUME OperatorInv, AnchoredOK, [Operate]_operator
    PROVE  AnchoredOK'
<1>1. ASSUME NEW start \in DOMAIN log, Anchor(start)
      PROVE  AnchoredOK'
  <2> DEFINE part == SubSeq(log, start, Len(log))
  <2>1. anchored' = [start |-> start, part |-> part] /\ issued' = issued
    BY <1>1 DEF Anchor
  <2>2. log \in Histories /\ \A j \in DOMAIN log : log[j] \in DOMAIN issued
    BY HistoryReceipt DEF Histories
  <2>3. /\ Len(log) \in Nat /\ start \in 1..Len(log) /\ DOMAIN log = 1..Len(log)
    <3>1. IsHistory(log)
      BY <2>2 DEF OperatorInv, HistoriesOK
    <3>. QED  BY <3>1, LenProperties DEF IsHistory
  <2>4. /\ part \in Seq(DOMAIN issued) /\ Len(part) = Len(log) - start + 1
        /\ \A i \in 1..Len(log) - start + 1 : part[i] = log[start + i - 1]
    <3>1. \A i \in start..Len(log) : log[i] \in DOMAIN issued
      BY <2>2, <2>3
    <3>. QED  BY <2>3, <3>1, SubSeqProperties
  <2> HIDE DEF part
  <2>5. DOMAIN part = 1..Len(log) - start + 1 /\ Len(part) \in Nat
        /\ part = [i \in 1..Len(part) |-> part[i]]
    BY <2>4
  <2>6. IsSeq(part)
    BY <2>5, SeqOfLength
  <2>7. ASSUME NEW i \in DOMAIN part
        PROVE  /\ part[i] \in DOMAIN issued
               /\ BodyAt(part[i])["seq"] = Decimal(start + i - 1)
    <3>1. start + i - 1 \in DOMAIN log /\ part[i] = log[start + i - 1]
      BY <2>3, <2>4, <2>5
    <3>2. /\ log[start + i - 1] \in DOMAIN issued
          /\ BodyAt(log[start + i - 1])["seq"] = Decimal(start + i - 1)
      BY <2>2, <3>1, HistoryReceipt
    <3>. QED  BY <3>1, <3>2
  <2>8. \A i : BodyAt(i)' = BodyAt(i)
    BY <2>1 DEF BodyAt
  <2>9. Len(part) > 0
    BY <2>3, <2>4
  <2>. QED  BY <2>1, <2>3, <2>6, <2>7, <2>8, <2>9 DEF AnchoredOK
<1>2. ASSUME NEW k \in DOMAIN key_list, Issue(k)
      PROVE  AnchoredOK'
  <2>1. anchored' = anchored /\ \E x : issued' = Append(issued, x)
    BY <1>2 DEF Issue
  <2>2. /\ Len(issued) \in Nat /\ DOMAIN issued = 1..Len(issued)
        /\ DOMAIN issued' = 1..Len(issued) + 1
        /\ \A i \in 1..Len(issued) : issued'[i] = issued[i]
    BY <2>1, OneLonger DEF OperatorInv, IssuedOK
  <2>3. \A i \in DOMAIN issued : i \in DOMAIN issued' /\ BodyAt(i)' = BodyAt(i)
    BY <2>2 DEF BodyAt
  <2>. QED  BY <2>1, <2>3 DEF AnchoredOK
<1>3. CASE UNCHANGED <<anchored, issued>>
  BY <1>3 DEF AnchoredOK, BodyAt
<1>4. /\ \A k \in DOMAIN key_list, status \in Revoked :
            Revoke(k, status) => UNCHANGED <<anchored, issued>>
      /\ \A n \in 0..Len(log) - 1 : Rollback(n) => UNCHANGED <<anchored, issued>>
      /\ Rotate => UNCHANGED <<anchored, issued>>
      /\ UNCHANGED operator => UNCHANGED <<anchored, issued>>
  BY DEF Revoke, Rollback, Rotate, operator
<1>. QED  BY <1>1, <1>2, <1>3, <1>4 DEF Operate

-----------------------------------------------------------------------------
(* What the verifier holds once it was given a disclosure.                 *)
Handed ==
    /\ \E n \in Nat : \E choice \in [1..n -> DOMAIN issued] :
          receipts = [i \in 1..n |-> EnvelopeOf(choice[i])]
    /\ keys = make_keys_json(TENANT, key_list)

AnchorHanded ==
    anchor = Null \/ (anchor = Obj(AnchorProof) /\ anchored # Nothing)

DisclosureInv ==
    /\ OperatorInv /\ AnchoredOK /\ arguments = "well typed"
    /\ stage = "operate" => InputOK /\ Fresh
    /\ stage # "operate" => /\ stage = "verify" /\ VerifierInv
                             /\ Handed /\ AnchorHanded

(* What is disclosed is an array layer 1 can be called with.               *)
LEMMA DisclosedInput == OperatorInv /\ Handed => InputOK
<1>. SUFFICES ASSUME OperatorInv, Handed PROVE InputOK
  OBVIOUS
<1>0. PICK n \in Nat : \E choice \in [1..n -> DOMAIN issued] :
          receipts = [i \in 1..n |-> EnvelopeOf(choice[i])]
  BY DEF Handed
<1>1. PICK choice \in [1..n -> DOMAIN issued] :
          receipts = [i \in 1..n |-> EnvelopeOf(choice[i])]
  BY <1>0
<1>2. DOMAIN receipts = 1..n
  BY <1>1
<1>3. receipts \in [1..n -> {receipts[i] : i \in DOMAIN receipts}]
  BY <1>1, <1>2
<1>4. receipts \in Seq({receipts[i] : i \in DOMAIN receipts})
  BY <1>2, <1>3
<1>5. ASSUME NEW p \in DOMAIN receipts
      PROVE  SeqDenotes(receipts[p])
  <2> DEFINE i == choice[p]
  <2>1. receipts[p] = EnvelopeOf(i) /\ i \in DOMAIN issued
    BY <1>1, <1>2
  <2>2. PICK j \in Nat : \E prev : BodyAt(i) = IssuedBody(j, prev, TickOf(i))
    BY <2>1, IssuedReceipt
  <2>3. /\ "seq" \in DOMAIN BodyAt(i) /\ BodyAt(i)["seq"] = Decimal(j)
    <3>1. PICK prev : BodyAt(i) = IssuedBody(j, prev, TickOf(i))
      BY <2>2
    <3>2. "seq" \in RECEIPT_BODY_REQUIRED_FIELDS
      BY DEF RECEIPT_BODY_REQUIRED_FIELDS
    <3> DEFINE body == IssuedBody(j, prev, TickOf(i))
    <3>3. DOMAIN body = RECEIPT_BODY_REQUIRED_FIELDS /\ body["seq"] = Decimal(j)
      BY IssuedFields
    <3>. QED  BY <3>1, <3>2, <3>3
  <2>4. Get(BodyOf(receipts[p]), "seq") = Decimal(j)
    BY <2>1, <2>3, IssuedEnvelope DEF Get
  <2>. QED  BY <2>4 DEF SeqDenotes, Decimal, IntOf
<1>. QED  BY <1>4, <1>5 DEF InputOK

LEMMA NextInput == OperatorInv' /\ Handed' => InputOK'
BY DisclosedInput, PTL

(* What was disclosed stays as long as nobody acts on it.                  *)
LEMMA HandedKept ==
    ASSUME Handed, UNCHANGED <<receipts, keys, issued, key_list>>
    PROVE  Handed'
<1>1. ASSUME NEW i
      PROVE  EnvelopeOf(i)' = EnvelopeOf(i)
  BY DEF EnvelopeOf, BodyAt, PrivateKey
<1>. QED  BY <1>1 DEF Handed

LEMMA AnchorKept ==
    ASSUME AnchorHanded, UNCHANGED <<anchor, issued, anchored>>
    PROVE  AnchorHanded'
<1>1. AnchorProof' = AnchorProof
  BY DEF AnchorProof, AnchoredHashes, BodyAt
<1>. QED  BY <1>1 DEF AnchorHanded

(* While the operator acts, nobody has called verify(); then the call is   *)
(* one of what was disclosed.                                              *)
LEMMA DisclosureInvInit == DisclosureInit => DisclosureInv
<1>1. DisclosureInit => AnchoredOK
  <2>. SUFFICES ASSUME DisclosureInit PROVE AnchoredOK
    OBVIOUS
  <2>1. anchored = Nothing /\ anchored.part = <<>> /\ anchored.start = 1
    BY DEF DisclosureInit, Nothing
  <2>. QED  BY <2>1 DEF AnchoredOK, IsSeq
<1>. QED  BY <1>1, OperatorInit, VerifierTypeInit
          DEF DisclosureInit, DisclosureInv, Init, Layer1Init, Fresh, CallOK

LEMMA DisclosureInvStep ==
    DisclosureInv /\ [DisclosureNext]_allvars => DisclosureInv'
<1>. SUFFICES ASSUME DisclosureInv, [DisclosureNext]_allvars
              PROVE  DisclosureInv'
  OBVIOUS
<1>1. CASE stage = "operate" /\ Operate /\ UNCHANGED <<vars, stage>>
  <2>1. OperatorInv' /\ AnchoredOK'
    BY <1>1, OperatorStep, AnchoredStep DEF DisclosureInv
  <2>. QED  BY <1>1, <2>1
            DEF DisclosureInv, vars, l1vars, InputOK, Fresh
<1>2. CASE Disclose
  <2>1. stage = "operate" /\ stage' = "verify" /\ UNCHANGED operator
    BY <1>2 DEF Disclose
  <2>2. OperatorInv' /\ AnchoredOK'
    BY <2>1, OperatorStep, AnchoredStep DEF DisclosureInv
  <2>3. Handed'
    <3>0. PICK n \in 0..MaxReceipts : \E choice \in [1..n -> DOMAIN issued] :
              receipts' = [i \in 1..n |-> EnvelopeOf(choice[i])]
      BY <1>2 DEF Disclose
    <3>1. PICK choice \in [1..n -> DOMAIN issued] :
              receipts' = [i \in 1..n |-> EnvelopeOf(choice[i])]
      BY <3>0
    <3>2. n \in Nat
      BY MaxReceiptsAssumption
    <3>3. \A i : EnvelopeOf(i)' = EnvelopeOf(i)
      BY <2>1 DEF operator, EnvelopeOf, BodyAt, PrivateKey
    <3>4. keys' = make_keys_json(TENANT, key_list)
      BY <1>2 DEF Disclose
    <3>. QED  BY <2>1, <3>1, <3>2, <3>3, <3>4 DEF Handed, operator
  <2>4. InputOK'
    BY <2>2, <2>3, NextInput
  <2>5. Fresh' /\ arguments' = "well typed"
    BY <1>2, <2>1 DEF Disclose, DisclosureInv, Fresh
  <2>6. VerifierInv'
    BY <2>4, <2>5, NextCall DEF Arguments
  <2>7. AnchorHanded'
    <3>1. AnchorProof' = AnchorProof
      BY <2>1 DEF operator, AnchorProof, AnchoredHashes, BodyAt
    <3>2. anchor' = Null \/ (anchor' = Obj(AnchorProof) /\ anchored # Nothing)
      BY <1>2 DEF Disclose
    <3>3. anchored' = anchored
      BY <2>1 DEF operator
    <3>. QED  BY <3>1, <3>2, <3>3 DEF AnchorHanded
  <2>. QED  BY <2>1, <2>2, <2>3, <2>5, <2>6, <2>7 DEF DisclosureInv
<1>3. CASE stage = "verify" /\ Next /\ UNCHANGED <<operator, events, stage>>
  <2>1. OperatorInv' /\ AnchoredOK'
    BY <1>3, OperatorStep, AnchoredStep DEF DisclosureInv
  <2>2. VerifierInv'
    BY <1>3, VerifierInvStep DEF DisclosureInv
  <2>3. UNCHANGED <<inputs, arguments, anchor>>
    BY <1>3, ArgumentsKept DEF DisclosureInv, VerifierInv
  <2>4. Handed'
    BY <1>3, <2>3, HandedKept DEF DisclosureInv, inputs, operator
  <2>5. AnchorHanded'
    BY <1>3, <2>3, AnchorKept DEF DisclosureInv, operator
  <2>. QED  BY <1>3, <2>1, <2>2, <2>3, <2>4, <2>5 DEF DisclosureInv
<1>4. CASE UNCHANGED allvars
  <2>1. OperatorInv' /\ AnchoredOK'
    BY <1>4, OperatorStep, AnchoredStep DEF DisclosureInv, allvars
  <2>2. stage = "verify" => VerifierInv'
    BY <1>4, VerifierInvStep DEF DisclosureInv, allvars
  <2>3. InputOK /\ Fresh => InputOK' /\ Fresh'
    BY <1>4 DEF allvars, vars, l1vars, InputOK, Fresh
  <2>4. Handed => Handed'
    BY <1>4, HandedKept DEF allvars, vars, l1vars, operator
  <2>5. AnchorHanded => AnchorHanded'
    BY <1>4, AnchorKept DEF allvars, vars, operator
  <2>. QED  BY <1>4, <2>1, <2>2, <2>3, <2>4, <2>5 DEF DisclosureInv, allvars, vars
<1>. QED  BY <1>1, <1>2, <1>3, <1>4 DEF DisclosureNext

LEMMA DisclosureInvariant == DisclosureSpec => []DisclosureInv
BY DisclosureInvInit, DisclosureInvStep, PTL DEF DisclosureSpec

-----------------------------------------------------------------------------
(* Cutting digits off keeps the order of two times.                        *)
LEMMA ParsedTicks ==
    ASSUME NEW c \in Nat, NEW t \in Nat
    PROVE  /\ ParseTs(Time(c)) \in Nat /\ ParseTs(Time(c)) # NoTime
           /\ c <= t => ParseTs(Time(c)) <= ParseTs(Time(t))
<1>1. ParseTs(Time(c)) = c \div TicksPerMicrosecond
      /\ ParseTs(Time(t)) = t \div TicksPerMicrosecond
  BY DEF ParseTs, Time, IsText, IsStr
<1>2. /\ c \div TicksPerMicrosecond \in Nat
      /\ c <= t => c \div TicksPerMicrosecond <= t \div TicksPerMicrosecond
  BY TicksAssumption
<1>. QED  BY <1>1, <1>2 DEF NoTime

(* A key that has ended is an error at its end and ever after.             *)
LEMMA EndedFails ==
    ASSUME NEW k, key_list[k] \in KeyEntry, NEW t \in Nat, Ended(k, t)
    PROVE  KeyValidityErrors(key_list[k], Time(t)) # {}
<1> DEFINE key == key_list[k]
           ts  == ParseTs(Time(t))
<1>0. /\ DOMAIN key = {"kid", "alg", "x", "not_before", "not_after", "status",
                       "revocation_time"}
      /\ Get(key, "not_after") = key.not_after
      /\ Get(key, "revocation_time") = key.revocation_time
      /\ KeyStatus(key) = key.status
      /\ ts \in Nat /\ ts # NoTime
  BY ParsedTicks DEF KeyEntry, Get, KeyStatus, GetOr
<1>1. ASSUME NEW c \in 0..t, key.not_after = Time(c)
      PROVE  NotAfterErrors(key, ts) # {}
  <2>1. Truthy(Time(c))
    BY DEF Truthy, Time, Null, Empty, Text, Num, List
  <2>2. ParseTs(Time(c)) \in Nat /\ ParseTs(Time(c)) # NoTime
        /\ ParseTs(Time(c)) <= ts
    BY ParsedTicks
  <2>. QED  BY <1>0, <1>1, <2>1, <2>2 DEF NotAfterErrors
<1>2. ASSUME key.status = Text("revoked_future_only"),
             NEW c \in 0..t, key.revocation_time = Time(c)
      PROVE  RevocationErrors(key, ts) # {}
  <2>1. ParseTs(Time(c)) \in Nat /\ ParseTs(Time(c)) # NoTime
        /\ ParseTs(Time(c)) <= ts
    BY ParsedTicks
  <2>2. Text("revoked_future_only") \notin {Text("active"), Text("retired")}
    BY DEF Text
  <2>. QED  BY <1>0, <1>2, <2>1, <2>2, NotRevoked
<1>3. ASSUME key.status = Text("revoked_all")
      PROVE  RevocationErrors(key, ts) # {}
  <2>1. Text("revoked_all") \notin {Text("active"), Text("retired"),
                                    Text("revoked_future_only")}
    BY DEF Text
  <2>. QED  BY <1>0, <1>3, <2>1, NotRevoked
<1>4. NotAfterErrors(key, ts) # {} \/ RevocationErrors(key, ts) # {}
  BY <1>1, <1>2, <1>3 DEF Ended
<1>. QED  BY <1>0, <1>4 DEF KeyValidityErrors, WindowErrors, ??

(* The key set the verifier is given selects for each name its own key.    *)
LEMMA KeySetSelects ==
    ASSUME OperatorInv, keys = make_keys_json(TENANT, key_list)
    PROVE  LET entries == GetOr(keys, "keys", List(<<>>))
               list    == Items(entries)
           IN  /\ Get(keys, "tenant") = TENANT /\ entries = keys["keys"]
               /\ IsList(entries)
               /\ list = [k \in DOMAIN key_list |-> Obj(key_list[k])]
               /\ \A k \in DOMAIN list : /\ IsObj(list[k])
                                         /\ Members(list[k]) = key_list[k]
               /\ \A k \in DOMAIN key_list :
                     AlgMatches(list, key_list[k].kid, Text("EdDSA")) = {k}
<1> DEFINE entries == GetOr(keys, "keys", List(<<>>))
           list    == Items(entries)
<1>1. /\ Get(keys, "tenant") = TENANT /\ entries = keys["keys"]
      /\ IsList(entries)
      /\ list = [k \in DOMAIN key_list |-> Obj(key_list[k])]
  BY DEF make_keys_json, Get, GetOr, IsList, List, Items
<1> HIDE DEF entries, list
<1>2. \A k \in DOMAIN list : IsObj(list[k]) /\ Members(list[k]) = key_list[k]
  BY <1>1 DEF IsObj, Obj, Members
<1>3. ASSUME NEW k \in DOMAIN key_list
      PROVE  /\ Get(key_list[k], "kid") = key_list[k].kid
             /\ Get(key_list[k], "alg") = Text("EdDSA")
  <2>1. key_list[k] \in KeyEntry
    BY IssuedFacts
  <2>. QED  BY <2>1 DEF KeyEntry, Get
<1>4. ASSUME NEW k \in DOMAIN key_list, NEW m \in DOMAIN key_list,
             key_list[k].kid = key_list[m].kid
      PROVE  k = m
  <2>1. DOMAIN key_list = {1} \/ DOMAIN key_list = {1, 2}
    BY IssuedFacts
  <2>2. KID # Text("tenant-key-2026-06")
    BY DEF KID, Text
  <2>3. \A n \in DOMAIN key_list :
            key_list[n].kid = IF n = 1 THEN KID ELSE Text("tenant-key-2026-06")
    BY DEF OperatorInv, KeyListOK
  <2>4. k \in {1, 2} /\ m \in {1, 2}
    BY <2>1
  <2> HIDE DEF Text
  <2>. QED  BY <1>4, <2>2, <2>3, <2>4
<1>5. \A k \in DOMAIN key_list :
          AlgMatches(list, key_list[k].kid, Text("EdDSA")) = {k}
  <2>1. DOMAIN list = DOMAIN key_list
    BY <1>1
  <2>2. ASSUME NEW k \in DOMAIN key_list, NEW n
        PROVE  n \in AlgMatches(list, key_list[k].kid, Text("EdDSA")) <=> n = k
    BY <1>2, <1>3, <1>4, <2>1 DEF AlgMatches, Candidates
  <2>. QED  BY <2>2
<1>. QED  BY <1>1, <1>2, <1>5 DEF entries, list

(* A receipt that passes was signed with a key in force.                   *)
LEMMA AcceptedInForce ==
    ASSUME OperatorInv, keys = make_keys_json(TENANT, key_list),
           NEW i \in DOMAIN issued, Acceptable(EnvelopeOf(i), keys)
    PROVE  Stands(i)
<1> DEFINE k       == issued[i].key
           entries == GetOr(keys, "keys", List(<<>>))
           list    == Items(entries)
<1>1. k \in DOMAIN key_list /\ key_list[k] \in KeyEntry /\ TickOf(i) \in Nat
  BY IssuedFacts DEF OperatorInv, IssuedOK
<1>2. BodyOf(EnvelopeOf(i)) = BodyAt(i)
      /\ GetOr(SigOf(EnvelopeOf(i)), "kid", Empty) = key_list[k].kid
  BY IssuedEnvelope
<1>3. BodyAt(i)["ts"] = Time(TickOf(i))
  <2>1. \E j, prev : BodyAt(i) = IssuedBody(j, prev, TickOf(i))
    BY IssuedReceipt
  <2>. QED  BY <2>1, IssuedFields
<1>4. PICK m \in DOMAIN list :
          /\ AlgMatches(list, key_list[k].kid, Text("EdDSA")) = {m}
          /\ KeyValidityErrors(Members(list[m]), Time(TickOf(i))) = {}
  BY <1>2, <1>3, AcceptableKey
<1>5. /\ AlgMatches(list, key_list[k].kid, Text("EdDSA")) = {k}
      /\ k \in DOMAIN list /\ Members(list[k]) = key_list[k]
  BY <1>1, KeySetSelects
<1>6. KeyValidityErrors(key_list[k], Time(TickOf(i))) = {}
  BY <1>4, <1>5
<1>7. ~Ended(k, TickOf(i))
  BY <1>1, <1>6, EndedFails
<1>8. issued[i].in_force
  BY <1>7 DEF OperatorInv, IssuedOK
<1>9. key_list[k].status # Text("revoked_all")
  <2>1. key_list[k].status = Text("revoked_all") => ~InForce(k)
    BY DEF InForce, Text
  <2>. QED  BY <1>7, <2>1 DEF Ended
<1>. QED  BY <1>8, <1>9 DEF Stands

(* A PASS after the whole of verify() is a PASS of layer 1.                *)
LEMMA PassedDisclosure ==
    ASSUME DisclosureInv, Verified, ri = "PASS"
    PROVE  /\ OperatorInv /\ InputOK /\ Handed
           /\ receipts # <<>> /\ AllAcceptable(receipts, keys)
           /\ Chained(receipts)
<1>1. OperatorInv /\ VerifierInv /\ Handed /\ arguments = "well typed"
  BY DEF DisclosureInv, Verified
<1>2. Verdict(receipts, keys) = "PASS"
  BY <1>1 DEF VerifierInv, ReturnedVerdict, Verified
<1>3. InputOK
  BY <1>1 DEF VerifierInv, CallOK
<1>. QED  BY <1>1, <1>2, <1>3 DEF Verdict

(* For every history of keys and receipts, what passes was signed by keys  *)
(* in force when they signed and not revoked for everything since.         *)
THEOREM PassSignedInForce == DisclosureSpec => []SignedInForce
<1>1. DisclosureInv => SignedInForce
  <2>. SUFFICES ASSUME DisclosureInv, Verified, ri = "PASS",
                       NEW p \in DOMAIN receipts
                PROVE  \E i \in DOMAIN issued :
                          EnvelopeOf(i) = receipts[p] /\ Stands(i)
    BY DEF SignedInForce, Disclosed
  <2>1. /\ OperatorInv /\ Handed /\ AllAcceptable(receipts, keys)
    BY PassedDisclosure
  <2>2. PICK i \in DOMAIN issued : EnvelopeOf(i) = receipts[p]
    BY <2>1 DEF Handed
  <2>3. Stands(i)
    BY <2>1, <2>2, AcceptedInForce DEF AllAcceptable, Handed
  <2>. QED  BY <2>2, <2>3
<1>. QED  BY <1>1, DisclosureInvariant, PTL

-----------------------------------------------------------------------------
(* A bijection between two intervals from 1 on.                            *)
LEMMA SameLength ==
    ASSUME NEW n \in Nat, NEW m \in Nat, NEW f \in Bijection(1..n, 1..m)
    PROVE  n = m
<1>1. /\ IsFiniteSet(1..n) /\ Cardinality(1..n) = n
      /\ IsFiniteSet(1..m) /\ Cardinality(1..m) = m
  BY FS_Interval
<1>2. ExistsBijection(1..n, 1..m)
  BY DEF ExistsBijection
<1>. QED  BY <1>1, <1>2, FS_Bijection

(* A non-empty set of numbers up to a bound has a greatest one.            *)
LEMMA GreatestNat ==
    ASSUME NEW T, T \subseteq Nat, T # {}, NEW b \in Nat, \A y \in T : y <= b
    PROVE  \E m \in T : \A y \in T : y <= m
<1> DEFINE D == {b - y : y \in T}
<1>1. D \subseteq Nat /\ D # {}
  <2>1. \A y \in T : b - y \in Nat
    OBVIOUS
  <2>2. PICK y \in T : TRUE
    OBVIOUS
  <2>3. b - y \in D
    BY <2>2
  <2>. QED  BY <2>1, <2>3
<1>2. PICK d \in D : \A e \in D : d <= e
  BY <1>1, LeastNat
<1>3. PICK m \in T : d = b - m
  BY <1>2
<1>4. \A y \in T : b - m <= b - y
  BY <1>2, <1>3
<1>5. \A y \in T : y <= m
  BY <1>4
<1>. QED  BY <1>5

(* A whole chain of issued receipts is the beginning of a history.         *)
LEMMA ChainIsHistory ==
    ASSUME OperatorInv, NEW N \in Nat \ {0}, NEW choice \in [1..N -> DOMAIN issued],
           receipts = [p \in 1..N |-> EnvelopeOf(choice[p])], Chained(receipts)
    PROVE  \E h \in Histories : /\ N \in 1..Len(h)
                               /\ {receipts[p] : p \in 1..N}
                                    = EnvelopesOf(SubSeq(h, 1, N))
<1> DEFINE num(p) == Number(receipts[p])
<1>1. ASSUME NEW p \in 1..N
      PROVE  \E h \in Histories : /\ num(p) \in DOMAIN h /\ h[num(p)] = choice[p]
                                 /\ num(p) \in Nat \ {0}
                                 /\ num(p) <= Len(issued)
  <2>1. choice[p] \in DOMAIN issued
    OBVIOUS
  <2>2. PICK h \in Histories : \E j \in DOMAIN h : h[j] = choice[p]
    BY <2>1, IssuedReceipt
  <2>3. PICK j \in DOMAIN h : h[j] = choice[p]
    BY <2>2
  <2>4. /\ Number(EnvelopeOf(h[j])) = j /\ j \in 1..Len(h)
        /\ Len(h) \in Nat /\ Len(h) <= Len(issued)
    BY HistoryReceipt
  <2>5. num(p) = j
    BY <2>3, <2>4
  <2>6. Len(issued) \in Nat
    BY IssuedFacts
  <2>. QED  BY <2>3, <2>4, <2>5, <2>6
<1>2. PICK top \in 1..N : \A p \in 1..N : num(p) <= num(top)
  <2> DEFINE T == {num(p) : p \in 1..N}
  <2>1. T \subseteq Nat /\ T # {} /\ \A y \in T : y <= Len(issued)
    BY <1>1
  <2>2. Len(issued) \in Nat
    BY IssuedFacts
  <2>3. PICK m \in T : \A y \in T : y <= m
    BY <2>1, <2>2, GreatestNat
  <2>. QED  BY <2>3
<1> DEFINE M == num(top)
<1>3. PICK h \in Histories : M \in DOMAIN h /\ h[M] = choice[top]
  BY <1>1
<1>4. /\ M \in Nat \ {0} /\ M \in 1..Len(h) /\ Len(h) \in Nat
      /\ DOMAIN h = 1..Len(h) /\ \A p \in 1..N : num(p) \in 1..M
  <2>1. M \in Nat \ {0} /\ \A p \in 1..N : num(p) \in Nat \ {0}
    BY <1>1
  <2>2. IsHistory(h)
    BY DEF OperatorInv, HistoriesOK
  <2>3. Len(h) \in Nat /\ DOMAIN h = 1..Len(h)
    BY <2>2, LenProperties DEF IsHistory
  <2>. QED  BY <1>2, <1>3, <2>1, <2>3
<1> HIDE DEF M, num
<1>5. ASSUME NEW j \in 1..M, NEW p \in 1..N, choice[p] = h[j]
      PROVE  /\ num(p) = j /\ BodyOf(receipts[p]) = BodyAt(h[j])
             /\ BodyOf(receipts[p])["prev_receipt"]
                  = IF j = 1 THEN Genesis ELSE HashOf(BodyAt(h[j - 1]))
  <2>1. j \in DOMAIN h /\ receipts[p] = EnvelopeOf(h[j])
    BY <1>4, <1>5
  <2>. QED  BY <2>1, HistoryReceipt DEF num
<1>6. ASSUME NEW j \in 1..M, NEW p \in 1..N, choice[p] = h[j], j # 1
      PROVE  \E q \in 1..N : choice[q] = h[j - 1]
  <2>1. ~IsGenesis(receipts[p])
    BY <1>4, <1>5, <1>6 DEF IsGenesis, num
  <2>2. PICK q \in 1..N : Follows(receipts[p], receipts[q])
    BY <2>1 DEF Chained
  <2>3. HashOf(BodyOf(receipts[q])) = HashOf(BodyAt(h[j - 1]))
    BY <1>5, <1>6, <2>2 DEF Follows
  <2>4. BodyAt(choice[q]) = BodyAt(h[j - 1])
    <3>1. BodyOf(receipts[q]) = BodyAt(choice[q])
      BY IssuedEnvelope
    <3>. QED  BY <2>3, <3>1 DEF HashOf
  <2>5. h[j - 1] \in DOMAIN issued
    BY <1>4, <1>6, HistoryReceipt
  <2>. QED  BY <2>4, <2>5, BodyTells
<1>7. ASSUME NEW j \in 1..M
      PROVE  \E p \in 1..N : choice[p] = h[j]
  <2> DEFINE T == {d \in Nat : d < M /\ ~\E p \in 1..N : choice[p] = h[M - d]}
  <2>1. T = {}
    <3>1. SUFFICES ASSUME T # {} PROVE FALSE
      OBVIOUS
    <3>2. PICK d \in T : \A e \in T : d <= e
      BY <3>1, LeastNat
    <3>3. d # 0
      <4>. SUFFICES ASSUME d = 0 PROVE FALSE
        OBVIOUS
      <4>1. M - d = M
        BY <1>4
      <4>2. ~\E p \in 1..N : choice[p] = h[M - d]
        BY <3>2
      <4>. QED  BY <1>3, <4>1, <4>2
    <3>4. d - 1 \in Nat /\ d - 1 < M /\ ~(d <= d - 1)
      <4>1. d \in Nat /\ d < M /\ M \in Nat
        BY <1>4, <3>2
      <4> HIDE DEF T
      <4>. QED  BY <3>3, <4>1
    <3>5. PICK p \in 1..N : choice[p] = h[M - (d - 1)]
      <4>1. d - 1 \notin T
        <5> HIDE DEF T
        <5>. QED  BY <3>2, <3>4
      <4>. QED  BY <3>4, <4>1
    <3>6. M - (d - 1) \in 1..M /\ M - (d - 1) # 1 /\ M - (d - 1) - 1 = M - d
      BY <1>4, <3>2, <3>3
    <3>7. \E q \in 1..N : choice[q] = h[M - d]
      BY <1>6, <3>5, <3>6
    <3>. QED  BY <3>2, <3>7
  <2>2. M - j \in Nat /\ M - j < M /\ M - (M - j) = j
    BY <1>4
  <2>. QED  BY <2>1, <2>2
<1>8. \A p \in 1..N : choice[p] = h[num(p)]
  <2>. SUFFICES ASSUME NEW p \in 1..N PROVE choice[p] = h[num(p)]
    OBVIOUS
  <2>1. num(p) \in 1..M
    BY <1>4
  <2>2. PICK q \in 1..N : choice[q] = h[num(p)]
    BY <1>7, <2>1
  <2>3. num(q) = num(p)
    BY <1>5, <2>1, <2>2
  <2>4. q = p
    BY <2>3 DEF Chained, num
  <2>. QED  BY <2>2, <2>4
<1>9. N = M
  <2> DEFINE f == [p \in 1..N |-> num(p)]
  <2>1. f \in [1..N -> 1..M]
    BY <1>4
  <2>2. \A p, q \in 1..N : f[p] = f[q] => p = q
    BY DEF Chained, num
  <2>3. \A j \in 1..M : \E p \in 1..N : f[p] = j
    BY <1>5, <1>7
  <2>4. f \in Bijection(1..N, 1..M)
    BY <2>1, <2>2, <2>3 DEF Bijection, Injection, Surjection, IsInjective
  <2>. QED  BY <1>4, <2>4, SameLength
<1>10. {receipts[p] : p \in 1..N} = EnvelopesOf(SubSeq(h, 1, N))
  <2> DEFINE part == SubSeq(h, 1, N)
  <2>1. DOMAIN part = 1..N /\ \A j \in 1..N : part[j] = h[j]
    <3>1. \A j \in 1..N : h[j] \in DOMAIN issued
      BY <1>4, <1>9, HistoryReceipt
    <3>2. /\ part \in Seq(DOMAIN issued)
          /\ Len(part) = IF 1 <= N THEN N - 1 + 1 ELSE 0
          /\ \A j \in 1..N - 1 + 1 : part[j] = h[1 + j - 1]
      BY <3>1, SubSeqProperties
    <3>3. DOMAIN part = 1..Len(part)
      BY <3>2, LenProperties
    <3>. QED  BY <3>2, <3>3
  <2> HIDE DEF part
  <2>2. \A p \in 1..N : num(p) \in 1..N /\ receipts[p] = EnvelopeOf(h[num(p)])
    BY <1>4, <1>8, <1>9
  <2>3. \A j \in 1..N : \E p \in 1..N : receipts[p] = EnvelopeOf(h[j])
    BY <1>7, <1>9
  <2>4. EnvelopesOf(part) = {EnvelopeOf(h[j]) : j \in 1..N}
    BY <2>1 DEF EnvelopesOf
  <2>5. ASSUME NEW e PROVE (e \in {receipts[p] : p \in 1..N})
                             <=> (e \in {EnvelopeOf(h[j]) : j \in 1..N})
    <3>1. (\E p \in 1..N : e = receipts[p]) => \E j \in 1..N : e = EnvelopeOf(h[j])
      BY <2>2
    <3>2. (\E j \in 1..N : e = EnvelopeOf(h[j])) => \E p \in 1..N : e = receipts[p]
      BY <2>3
    <3>. QED  BY <3>1, <3>2
  <2>6. {receipts[p] : p \in 1..N} = {EnvelopeOf(h[j]) : j \in 1..N}
    BY <2>5
  <2>. QED  BY <2>4, <2>6 DEF part
<1>. QED  BY <1>4, <1>9, <1>10

(* Every verdict "PASS" is on the beginning of a log the operator had: the *)
(* chain of verify_receipt_integrity leads from the greatest number down   *)
(* to the genesis marker, and one hash has one body behind it.             *)
THEOREM PassedIsHistory == DisclosureSpec => []PassIsAHistory
<1>1. DisclosureInv => PassIsAHistory
  <2>. SUFFICES ASSUME DisclosureInv, Verified, ri = "PASS"
                PROVE  \E h \in Histories :
                          /\ Len(receipts) \in 1..Len(h)
                          /\ Disclosed = EnvelopesOf(SubSeq(h, 1, Len(receipts)))
    BY DEF PassIsAHistory, Histories
  <2>1. /\ OperatorInv /\ Handed /\ Chained(receipts) /\ receipts # <<>>
    BY PassedDisclosure
  <2>2. PICK N \in Nat : \E choice \in [1..N -> DOMAIN issued] :
                            receipts = [p \in 1..N |-> EnvelopeOf(choice[p])]
    BY <2>1 DEF Handed
  <2>3. PICK choice \in [1..N -> DOMAIN issued] :
                receipts = [p \in 1..N |-> EnvelopeOf(choice[p])]
    BY <2>2
  <2>4. DOMAIN receipts = 1..N /\ Len(receipts) = N
    BY <2>3
  <2>5. N # 0
    BY <2>1, <2>3, <2>4
  <2>6. PICK h \in Histories : /\ N \in 1..Len(h)
                               /\ {receipts[p] : p \in 1..N}
                                    = EnvelopesOf(SubSeq(h, 1, N))
    BY <2>1, <2>3, <2>5, ChainIsHistory
  <2>7. Disclosed = {receipts[p] : p \in 1..N}
    BY <2>4 DEF Disclosed
  <2>8. /\ Len(receipts) \in 1..Len(h)
        /\ Disclosed = EnvelopesOf(SubSeq(h, 1, Len(receipts)))
    BY <2>4, <2>6, <2>7
  <2>. QED  BY <2>8
<1>. QED  BY <1>1, DisclosureInvariant, PTL
-----------------------------------------------------------------------------
(* While a time is a whole number of microseconds, a key that lasts for a  *)
(* receipt has no error at the receipt's time.                             *)
LEMMA LastingPasses ==
    ASSUME TicksPerMicrosecond = 1, NEW k, key_list[k] \in KeyEntry,
           NEW t \in Nat, Lasting(k, t), t < not_after,
           key_list[k].status # Text("revoked_all")
    PROVE  KeyValidityErrors(key_list[k], Time(t)) = {}
<1> DEFINE key == key_list[k]
<1>0. /\ Get(key, "not_before") = key.not_before
      /\ Get(key, "not_after") = key.not_after
      /\ Get(key, "revocation_time") = key.revocation_time
      /\ KeyStatus(key) = key.status
      /\ key.status \in {Text("active"), Text("retired"),
                         Text("revoked_future_only")}
  BY DEF KeyEntry, Revoked, Get, KeyStatus, GetOr
<1>1. ASSUME NEW c \in Nat PROVE ParseTs(Time(c)) = c /\ c # NoTime
  BY DEF ParseTs, Time, IsText, IsStr, NoTime
<1>2. NotBeforeErrors(key, t) = {}
  <2>1. PICK c \in 0..t : key.not_before = Time(c)
    BY DEF Lasting
  <2>. QED  BY <1>0, <1>1, <2>1 DEF NotBeforeErrors
<1>3. NotAfterErrors(key, t) = {}
  <2>1. PICK c \in Nat : key.not_after = Time(c) /\ t < c
    BY DEF Lasting
  <2>2. ~(t >= c)
    BY <2>1
  <2>. QED  BY <1>0, <1>1, <2>1, <2>2 DEF NotAfterErrors
<1>4. RevocationErrors(key, t) = {}
  <2>1. CASE key.status = Text("revoked_future_only")
    <3>1. PICK c \in Nat : t < c /\ key.revocation_time = Time(c)
      BY <2>1 DEF Lasting
    <3>2. ~(t >= c)
      BY <3>1
    <3>3. /\ key.status # Text("revoked_all")
          /\ ~(key.status \in {Text("active"), Text("retired")})
      BY <2>1 DEF Text
    <3>4. ParseTs(Get(key, "revocation_time")) = c /\ c # NoTime
      BY <1>0, <1>1, <3>1
    <3>. QED  BY <1>0, <2>1, <3>2, <3>3, <3>4, Zenon DEF RevocationErrors
  <2>2. CASE key.status \in {Text("active"), Text("retired")}
    <3>1. /\ key.status # Text("revoked_all")
          /\ key.status # Text("revoked_future_only")
      BY <2>2 DEF Text
    <3>2. key.revocation_time = Null
      BY <3>1 DEF Lasting, Revoked
    <3>. QED  BY <1>0, <2>2, <3>1, <3>2, Zenon DEF RevocationErrors
  <2>. QED  BY <1>0, <2>1, <2>2
<1>. QED  BY <1>1, <1>2, <1>3, <1>4 DEF KeyValidityErrors, WindowErrors, ??

(* The fields of an issued receipt are the ones the validators ask for.    *)
LEMMA IssuedBodyValid ==
    ASSUME NEW j \in Nat \ {0}, NEW prev, NEW t, IsHash(prev), IsStr(prev),
           prev # Surrogate
    PROVE  LET body == IssuedBody(j, prev, t)
           IN  /\ BodyFieldErrors(body) = {}
               /\ FieldTypeErrors(body) = {}
               /\ ~CanonicalizeRaises(body)
<1> DEFINE body == IssuedBody(j, prev, t)
<1>1. /\ DOMAIN body = RECEIPT_BODY_REQUIRED_FIELDS
      /\ body["seq"] = Decimal(j) /\ body["ts"] = Time(t)
      /\ body["tenant"] = TENANT /\ body["prev_receipt"] = prev
      /\ body["v"] = Text("1") /\ body["decision"] = Text("approve")
      /\ body["reasons"] = List(<<Text("auto_approve")>>)
      /\ body["request_digest"] = Digest(<<"request", j>>)
      /\ body["policy_version"] = Digest(<<"policy", 1>>)
  BY IssuedFields
<1> HIDE DEF body
<1>2. \A f \in RECEIPT_BODY_REQUIRED_FIELDS : Get(body, f) = body[f]
  BY <1>1 DEF Get
<1>3. BodyFieldErrors(body) = {}
  BY <1>1, <1>2 DEF BodyFieldErrors, UnsupportedVersion, Text,
     RECEIPT_BODY_REQUIRED_FIELDS
<1>4. \A f \in RECEIPT_BODY_REQUIRED_FIELDS \ {"reasons"} :
          IsStr(body[f]) /\ body[f] # Surrogate
  BY <1>1 DEF RECEIPT_BODY_REQUIRED_FIELDS, IsStr, Decimal, Time, TENANT, Text,
     Digest, Surrogate
<1>5. /\ IsList(body["reasons"])
      /\ Items(body["reasons"]) = <<Text("auto_approve")>>
  BY <1>1 DEF IsList, List, Items
<1>6. DOMAIN Items(body["reasons"]) = {1}
      /\ Items(body["reasons"])[1] = Text("auto_approve")
  BY <1>5
<1>7. WellTyped(body)
  <2>1. \A f \in StringFields \cap DOMAIN body :
            f \in RECEIPT_BODY_REQUIRED_FIELDS \ {"reasons"}
    BY <1>1 DEF StringFields, STRING_REQUIRED_FIELDS
  <2>2. IsPositiveDecimal(body["seq"])
    BY <1>1 DEF IsPositiveDecimal, IsText, IsStr, Decimal
  <2>3. Get(body, "decision") \in SUPPORTED_DECISIONS
        /\ Get(body, "reasons") = body["reasons"]
    BY <1>1, <1>2 DEF SUPPORTED_DECISIONS, RECEIPT_BODY_REQUIRED_FIELDS
  <2>4. IsStr(Text("auto_approve"))
    BY DEF IsStr, Text
  <2>. QED  BY <1>4, <1>5, <1>6, <2>1, <2>2, <2>3, <2>4 DEF WellTyped
<1>8. FieldTypeErrors(body) = {}
  <2>1. \A f \in {"request_digest", "policy_version", "prev_receipt"} :
            IsHash(Get(body, f))
    BY <1>1, <1>2 DEF RECEIPT_BODY_REQUIRED_FIELDS, IsHash, IsText, IsStr,
       Digest, HashKinds
  <2>. QED  BY <1>7, <2>1 DEF FieldTypeErrors
<1>9. ~CanonicalizeRaises(body)
  <2>1. body["reasons"] # Surrogate /\ Text("auto_approve") # Surrogate
    BY <1>1 DEF List, Text, Surrogate
  <2>2. \A f \in DOMAIN body : body[f] # Surrogate
    BY <1>1, <1>4, <2>1
  <2>3. \A f \in DOMAIN body : IsList(body[f]) => f = "reasons"
    BY <1>1, <1>4 DEF IsList, IsStr
  <2>4. \A f \in DOMAIN body : IsList(body[f]) =>
            \A i \in DOMAIN Items(body[f]) : Items(body[f])[i] # Surrogate
    BY <1>6, <2>1, <2>3
  <2>. QED  BY <2>2, <2>4 DEF CanonicalizeRaises, Values
<1>. QED  BY <1>3, <1>8, <1>9 DEF body

(* A receipt that stands is acceptable, whatever happened to its key after.*)
LEMMA StandingAccepted ==
    ASSUME TicksPerMicrosecond = 1, OperatorInv, clock <= not_after,
           keys = make_keys_json(TENANT, key_list),
           NEW i \in DOMAIN issued, Stands(i)
    PROVE  Acceptable(EnvelopeOf(i), keys)
<1> DEFINE k       == issued[i].key
           body    == BodyAt(i)
           sig     == SigOf(EnvelopeOf(i))
           entries == GetOr(keys, "keys", List(<<>>))
           list    == Items(entries)
           EdDSA   == Text("EdDSA")
<1>1. /\ k \in DOMAIN key_list /\ key_list[k] \in KeyEntry
      /\ TickOf(i) \in Nat /\ TickOf(i) < not_after
      /\ Lasting(k, TickOf(i)) /\ key_list[k].status # Text("revoked_all")
  <2>1. /\ TickOf(i) \in Nat /\ TickOf(i) < clock /\ clock \in Nat
        /\ \A m \in DOMAIN key_list : key_list[m] \in KeyEntry
    BY IssuedFacts
  <2>2. not_after \in Nat
    BY DEF not_after
  <2>. QED  BY <2>1, <2>2 DEF OperatorInv, IssuedOK, Stands
<1>2. PICK h \in Histories : \E j \in DOMAIN h :
              /\ h[j] = i /\ j \in Nat \ {0}
              /\ body = IssuedBody(j, IF j = 1 THEN Genesis
                               ELSE receipt_hash(BodyAt(h[j - 1])), TickOf(i))
  BY IssuedReceipt
<1>3. PICK j \in Nat \ {0} :
              body = IssuedBody(j, IF j = 1 THEN Genesis
                               ELSE receipt_hash(BodyAt(h[j - 1])), TickOf(i))
  BY <1>2
<1>4. /\ BodyFieldErrors(body) = {} /\ FieldTypeErrors(body) = {}
      /\ ~CanonicalizeRaises(body)
  <2> DEFINE prev == IF j = 1 THEN Genesis ELSE receipt_hash(BodyAt(h[j - 1]))
  <2>1. IsHash(prev) /\ IsStr(prev) /\ prev # Surrogate
    BY DEF receipt_hash, IsHash, IsText, IsStr, HashKinds, Genesis, HashOf,
           Surrogate
  <2> HIDE DEF prev
  <2>2. body = IssuedBody(j, prev, TickOf(i))
    BY <1>3 DEF prev
  <2>. QED  BY <2>1, <2>2, IssuedBodyValid
<1>5. body["tenant"] = TENANT /\ body["ts"] = Time(TickOf(i))
  BY <1>3, IssuedFields
<1>6. /\ Get(keys, "tenant") = TENANT /\ entries = keys["keys"]
      /\ IsList(entries)
      /\ \A m \in DOMAIN list : IsObj(list[m]) /\ Members(list[m]) = key_list[m]
      /\ DOMAIN list = DOMAIN key_list
      /\ AlgMatches(list, key_list[k].kid, EdDSA) = {k}
  BY <1>1, KeySetSelects
<1>7. /\ EnvelopeErrors(EnvelopeOf(i)) = {} /\ BodyOf(EnvelopeOf(i)) = body
      /\ GetOr(sig, "alg", Empty) = EdDSA
      /\ GetOr(sig, "kid", Empty) = key_list[k].kid
      /\ GetOr(sig, "value", Empty) = SignatureBy(key_list[k].x, body)
  BY IssuedEnvelope
<1> HIDE DEF entries, list, sig, body, k, EdDSA
<1>8. LookupErrors(keys, TENANT, key_list[k].kid, EdDSA) = {}
  <2>1. k \in Candidates(list, key_list[k].kid)
    BY <1>6 DEF AlgMatches
  <2>. QED  BY <1>6, <2>1 DEF LookupErrors, entries, list
<1>9. SelectedKey(keys, key_list[k].kid, EdDSA) = key_list[k]
  BY <1>1, <1>6 DEF SelectedKey, list
<1>10. KeyValidityErrors(key_list[k], body["ts"]) = {}
  BY <1>1, <1>5, LastingPasses
<1>11. SignatureErrors(key_list[k], body, SignatureBy(key_list[k].x, body)) = {}
  BY <1>1 DEF SignatureErrors, Get, KeyEntry
<1>12. ReceiptErrors(keys, body, sig, "INCONCLUSIVE") = {}
  <2>1. AfterFatal("INCONCLUSIVE", {}) # "FAIL"
    BY DEF AfterFatal
  <2>. QED  BY <1>5, <1>7, <1>8, <1>9, <1>10, <1>11, <2>1
            DEF ReceiptErrors, EdDSA
<1>. QED  BY <1>4, <1>7, <1>12 DEF Acceptable, sig

(* A function from an interval onto itself takes no value twice.           *)
LEMMA OntoIsOneToOne ==
    ASSUME NEW n \in Nat, NEW f \in [1..n -> 1..n],
           \A j \in 1..n : \E p \in 1..n : f[p] = j
    PROVE  \A p, q \in 1..n : f[p] = f[q] => p = q
<1>1. f \in Surjection(1..n, 1..n)
  BY DEF Surjection
<1>2. IsFiniteSet(1..n)
  BY FS_Interval
<1>3. f \in Injection(1..n, 1..n)
  BY <1>1, <1>2, FS_SurjSameCardinalityImpliesInj
<1>. QED  BY <1>3 DEF Injection, IsInjective

(* A whole log is a chain, in whatever order its receipts come.            *)
LEMMA LogIsChained ==
    ASSUME OperatorInv, Handed, Len(receipts) = Len(log), Disclosed = EnvelopesOf(log)
    PROVE  Chained(receipts)
<1> DEFINE N      == Len(log)
           num(p) == Number(receipts[p])
<1>1. /\ N \in Nat /\ DOMAIN log = 1..N
      /\ \A j \in 1..N : log[j] \in DOMAIN issued
  <2>1. IsHistory(log)
    BY DEF OperatorInv, HistoriesOK, Histories
  <2>. QED  BY <2>1, LenProperties DEF IsHistory
<1>2. DOMAIN receipts = 1..N
  <2>1. PICK n \in Nat : \E choice \in [1..n -> DOMAIN issued] :
            receipts = [i \in 1..n |-> EnvelopeOf(choice[i])]
    BY DEF Handed
  <2>2. DOMAIN receipts = 1..n /\ Len(receipts) = n
    BY <2>1
  <2>. QED  BY <2>2
<1>3. ASSUME NEW j \in 1..N
      PROVE  /\ Number(EnvelopeOf(log[j])) = j
             /\ BodyOf(EnvelopeOf(log[j])) = BodyAt(log[j])
             /\ BodyAt(log[j])["prev_receipt"]
                  = IF j = 1 THEN Genesis ELSE HashOf(BodyAt(log[j - 1]))
  <2>1. log \in Histories /\ j \in DOMAIN log
    BY <1>1 DEF Histories
  <2>. QED  BY <2>1, HistoryReceipt
<1>4. \A j \in 1..N : \E p \in 1..N : receipts[p] = EnvelopeOf(log[j])
  <2>. SUFFICES ASSUME NEW j \in 1..N
                PROVE  \E p \in 1..N : receipts[p] = EnvelopeOf(log[j])
    OBVIOUS
  <2>1. EnvelopeOf(log[j]) \in Disclosed
    BY <1>1 DEF EnvelopesOf
  <2>. QED  BY <1>2, <2>1 DEF Disclosed
<1>5. \A p \in 1..N : num(p) \in 1..N /\ receipts[p] = EnvelopeOf(log[num(p)])
  <2>. SUFFICES ASSUME NEW p \in 1..N
                PROVE  num(p) \in 1..N /\ receipts[p] = EnvelopeOf(log[num(p)])
    OBVIOUS
  <2>1. receipts[p] \in EnvelopesOf(log)
    BY <1>2 DEF Disclosed
  <2>2. PICK j \in 1..N : receipts[p] = EnvelopeOf(log[j])
    BY <1>1, <2>1 DEF EnvelopesOf
  <2>3. num(p) = j
    BY <1>3, <2>2
  <2>. QED  BY <2>2, <2>3
<1>6. \A j \in 1..N : \E p \in 1..N : num(p) = j /\ receipts[p] = EnvelopeOf(log[j])
  <2>. SUFFICES ASSUME NEW j \in 1..N
                PROVE  \E p \in 1..N : /\ num(p) = j
                                       /\ receipts[p] = EnvelopeOf(log[j])
    OBVIOUS
  <2>1. PICK p \in 1..N : receipts[p] = EnvelopeOf(log[j])
    BY <1>4
  <2>2. num(p) = j
    BY <1>3, <2>1
  <2>. QED  BY <2>1, <2>2
<1>7. \A p, q \in 1..N : num(p) = num(q) => p = q
  <2> DEFINE f == [p \in 1..N |-> num(p)]
  <2>1. f \in [1..N -> 1..N] /\ \A j \in 1..N : \E p \in 1..N : f[p] = j
    BY <1>5, <1>6
  <2>2. \A p, q \in 1..N : f[p] = f[q] => p = q
    <3> HIDE DEF f
    <3>. QED  BY <1>1, <2>1, OntoIsOneToOne
  <2>. QED  BY <2>2
<1>8. ASSUME NEW p \in 1..N
      PROVE  IsGenesis(receipts[p]) \/ \E q \in 1..N : Follows(receipts[p], receipts[q])
  <2> DEFINE j == num(p)
  <2>1. j \in 1..N /\ receipts[p] = EnvelopeOf(log[j])
    BY <1>5
  <2>2. BodyOf(receipts[p])["prev_receipt"]
           = IF j = 1 THEN Genesis ELSE HashOf(BodyAt(log[j - 1]))
    BY <1>3, <2>1
  <2>3. CASE j = 1
    BY <2>2, <2>3 DEF IsGenesis
  <2>4. CASE j # 1
    <3>1. j - 1 \in 1..N
      BY <2>1, <2>4
    <3>2. PICK q \in 1..N : /\ num(q) = j - 1
                            /\ receipts[q] = EnvelopeOf(log[j - 1])
      BY <1>6, <3>1
    <3>3. BodyOf(receipts[q]) = BodyAt(log[j - 1])
      BY <1>3, <3>1, <3>2
    <3>4. num(p) = num(q) + 1
      BY <2>1, <3>2
    <3>. QED  BY <2>2, <2>4, <3>3, <3>4 DEF Follows
  <2>. QED  BY <2>3, <2>4
<1>. QED  BY <1>2, <1>7, <1>8 DEF Chained

(* For logs of every length: what the operator keeps and hands over whole  *)
(* passes, in every order and after every rotation, revocation for the     *)
(* future and rollback.  Times are whole microseconds here; finer ones     *)
(* could be cut off to the instant at which the key ended.                 *)
THEOREM HonestLogPasses ==
    ASSUME TicksPerMicrosecond = 1
    PROVE  DisclosureSpec => []HonestPasses
<1>1. DisclosureInv => HonestPasses
  <2>. SUFFICES ASSUME DisclosureInv, WholeLogDisclosed
                PROVE  ri = "PASS"
    BY DEF HonestPasses
  <2>1. /\ OperatorInv /\ Handed /\ ri = Verdict(receipts, keys)
        /\ keys = make_keys_json(TENANT, key_list)
    <3>1. Verified
      BY DEF WholeLogDisclosed
    <3>2. /\ OperatorInv /\ VerifierInv /\ Handed /\ arguments = "well typed"
          /\ pc = "done"
      BY <3>1 DEF DisclosureInv, Verified
    <3>. QED  BY <3>2 DEF VerifierInv, ReturnedVerdict, Handed
  <2>2. receipts # <<>>
    BY DEF WholeLogDisclosed
  <2>3. ASSUME NEW p \in DOMAIN receipts
        PROVE  Acceptable(receipts[p], keys)
    <3>1. receipts[p] \in EnvelopesOf(log)
      BY DEF WholeLogDisclosed, Disclosed
    <3>2. PICK j \in DOMAIN log : receipts[p] = EnvelopeOf(log[j])
      BY <3>1 DEF EnvelopesOf
    <3>3. log[j] \in DOMAIN issued /\ Stands(log[j])
      BY <2>1, HistoryReceipt DEF WholeLogDisclosed, Histories
    <3>. QED  BY <2>1, <3>2, <3>3, StandingAccepted DEF WholeLogDisclosed
  <2>4. \A p \in DOMAIN receipts : ~Unsupported(receipts[p])
    BY <2>3, UnsupportedNotAcceptable
  <2>5. Chained(receipts)
    BY <2>1, LogIsChained DEF WholeLogDisclosed
  <2>. QED  BY <2>1, <2>2, <2>3, <2>4, <2>5 DEF Verdict, AllAcceptable
<1>. QED  BY <1>1, DisclosureInvariant, PTL
-----------------------------------------------------------------------------
(* Any number of anchored receipts: an anchor proof that is not refused    *)
(* was compared with the root of the disclosed receipts of its range, and  *)
(* a root has one batch behind it, so the anchored receipts are disclosed, *)
(* none replaced by one that took its number after a rollback.             *)
THEOREM AnchorStopsRollback == DisclosureSpec => []AnchorPreventsRollback
<1>1. DisclosureInv => AnchorPreventsRollback
  <2>. SUFFICES ASSUME DisclosureInv, Verified, anchor # Null, recorded # {},
                       anchor_validity # "FAIL", NEW i \in DOMAIN anchored.part
                PROVE  EnvelopeOf(anchored.part[i]) \in Disclosed
    BY DEF AnchorPreventsRollback
  <2> DEFINE part == anchored.part
             size == Len(part)
  <2>1. /\ OperatorInv /\ AnchoredOK /\ VerifierInv /\ Handed /\ AnchorHanded
        /\ pc = "done" /\ arguments = "well typed"
    BY DEF DisclosureInv, Verified
  <2>2. /\ IsSeq(part) /\ size \in Nat /\ DOMAIN part = 1..size /\ size > 0
        /\ anchored.start \in Nat
    <3>1. IsSeq(part) /\ size \in Nat /\ DOMAIN part = 1..size
          /\ anchored.start \in Nat
      BY <2>1, SeqDomain DEF AnchoredOK
    <3>. QED  BY <3>1
  <2>3. anchor = Obj(AnchorProof) /\ Members(anchor) = AnchorProof /\ IsObj(anchor)
    <3>1. anchor = Obj(AnchorProof)
      BY <2>1 DEF AnchorHanded
    <3> HIDE DEF AnchorProof
    <3>. QED  BY <3>1 DEF Obj, Members, IsObj
  <2>4. AnchorErrors(AnchorProof) = {}
    BY <2>1, <2>3 DEF VerifierInv, AnchorChecked
  <2>5. /\ BatchRoot(AnchorProof) = compute_batch_root(AnchoredHashes)
        /\ RangeStart(AnchorProof) = Decimal(anchored.start)
        /\ RangeEnd(AnchorProof) = Decimal(anchored.start + size - 1)
    BY DEF AnchorProof, anchor_proof, BatchRoot, RangeStart, RangeEnd, GetOr
  <2>6. AnchorRange(AnchorProof) = anchored.start..anchored.start + size - 1
    BY <2>5 DEF AnchorRange, IntOf, Decimal
  <2> DEFINE C == Covered(AnchorProof)
             H == OrderedHashes(AnchorProof)
  <2>7. C \subseteq Int /\ IsFiniteSet(C)
    <3>1. C \in SUBSET (anchored.start..anchored.start + size - 1)
      BY <2>6 DEF Covered
    <3>2. IsFiniteSet(anchored.start..anchored.start + size - 1)
      <4>1. anchored.start \in Int /\ anchored.start + size - 1 \in Int
        BY <2>2
      <4>. QED  BY <4>1, FS_Interval
    <3>. QED  BY <2>2, <3>1, <3>2, FS_Subset
  <2>8. C # {} /\ compute_batch_root(H) = compute_batch_root(AnchoredHashes)
    BY <2>4, <2>5, NoAnchorErrors
  <2>9. /\ IsSeq(H) /\ Len(H) = Cardinality(C) /\ Len(H) > 0 /\ Len(H) \in Nat
        /\ \A j \in 1..Len(H) : \E n \in C : H[j] = HashAt(n)
    BY <2>7, <2>8, OrderedHashesAre
  <2>10. IsSeq(AnchoredHashes) /\ Len(AnchoredHashes) = size
    <3>1. AnchoredHashes = [j \in 1..size |-> receipt_hash(BodyAt(part[j]))]
      BY <2>2 DEF AnchoredHashes
    <3>. QED  BY <2>2, <3>1, SeqOfLength
  <2>11. H = AnchoredHashes
    BY <2>2, <2>8, <2>9, <2>10, RootBindsBatch
  <2>12. H[i] = HashOf(BodyAt(part[i])) /\ i \in 1..Len(H)
    BY <2>2, <2>10, <2>11 DEF AnchoredHashes, receipt_hash
  <2>13. PICK p \in recorded : H[i] = HashOf(BodyOf(receipts[p]))
    <3>1. PICK n \in C : H[i] = HashAt(n)
      BY <2>9, <2>12
    <3>. QED  BY <3>1, HashOfCovered DEF ReceiptHash
  <2>14. p \in DOMAIN receipts
    BY <2>1, <2>13, RecordedPositions DEF VerifierInv
  <2>15. PICK c \in DOMAIN issued : receipts[p] = EnvelopeOf(c)
    BY <2>1, <2>14 DEF Handed
  <2>16. BodyAt(c) = BodyAt(part[i])
    <3>1. BodyOf(receipts[p]) = BodyAt(c)
      BY <2>15, IssuedEnvelope
    <3>. QED  BY <2>12, <2>13, <3>1 DEF HashOf
  <2>17. c = part[i]
    BY <2>1, <2>16, BodyTells DEF AnchoredOK
  <2>. QED  BY <2>14, <2>15, <2>17 DEF Disclosed
<1>. QED  BY <1>1, DisclosureInvariant, PTL

-----------------------------------------------------------------------------
(* The levels an operator keeps of a batch, as many as it has receipts,    *)
(* are the levels of its tree up to the root.                              *)
LEMMA LevelsOfAre ==
    ASSUME NEW s, IsSeq(s), Len(s) > 0
    PROVE  LevelSeq(s, LevelsOf(s)) /\ Len(LevelsOf(s)) = Len(s)
<1> DEFINE n      == Len(s)
           leaves == [i \in DOMAIN s |-> LeafHash(s[i])]
           Is(f)  == f = [k \in DOMAIN s |-> IF k = 1 THEN leaves
                                             ELSE NextLevel(f[k - 1])]
           lvls   == LevelsOf(s)
<1>1. n \in Nat \ {0} /\ DOMAIN s = 1..n /\ n - 1 \in Nat
  BY SeqDomain
<1>2. \E f : Is(f)
  <2>1. PICK L : Levels(s, n - 1, L)
    BY <1>1, LevelsExist
  <2> DEFINE f == [k \in 1..n |-> L[k - 1]]
  <2>2. ASSUME NEW k \in 1..n
        PROVE  f[k] = IF k = 1 THEN leaves ELSE NextLevel(f[k - 1])
    <3>1. k - 1 \in 0..n - 1 /\ (k - 1 = 0 <=> k = 1)
      BY <1>1
    <3>2. L[k - 1] = IF k = 1 THEN leaves ELSE NextLevel(L[(k - 1) - 1])
      BY <2>1, <3>1 DEF Levels
    <3>3. k # 1 => k - 1 \in 1..n
      BY <1>1
    <3>. QED  BY <3>2, <3>3
  <2>3. f = [k \in 1..n |-> f[k]]
    OBVIOUS
  <2> HIDE DEF f, leaves
  <2>4. f = [k \in 1..n |-> IF k = 1 THEN leaves ELSE NextLevel(f[k - 1])]
    BY <2>2, <2>3
  <2>. QED  BY <1>1, <2>4
<1>3. lvls = CHOOSE f : Is(f)
  BY DEF LevelsOf
<1>4. Is(lvls)
  <2> HIDE DEF Is, lvls
  <2>. QED  BY <1>2, <1>3
<1> HIDE DEF lvls
<1>5. /\ lvls[1] = leaves
      /\ \A k \in 2..n : lvls[k] = NextLevel(lvls[k - 1])
      /\ lvls = [k \in 1..n |-> lvls[k]]
  <2>1. \A k \in 1..n : lvls[k] = IF k = 1 THEN leaves ELSE NextLevel(lvls[k - 1])
    BY <1>1, <1>4
  <2>2. 1 \in 1..n /\ \A k \in 2..n : k \in 1..n /\ k # 1
    BY <1>1
  <2> HIDE DEF leaves
  <2>3. lvls = [k \in 1..n |-> lvls[k]]
    BY <1>1, <1>4
  <2>. QED  BY <2>1, <2>2, <2>3
<1>6. IsSeq(lvls) /\ Len(lvls) = n
  BY <1>1, <1>5, SeqOfLength
<1> DEFINE L == [k \in 0..n - 1 |-> lvls[k + 1]]
<1>7. Levels(s, n - 1, L)
  <2>1. ASSUME NEW k \in 0..n - 1
        PROVE  L[k] = IF k = 0 THEN leaves ELSE NextLevel(L[k - 1])
    <3>1. CASE k = 0
      BY <1>5, <3>1
    <3>2. CASE k # 0
      <4>1. k + 1 \in 2..n /\ k - 1 \in 0..n - 1 /\ (k + 1) - 1 = (k - 1) + 1
        BY <1>1, <3>2
      <4>2. lvls[k + 1] = NextLevel(lvls[(k + 1) - 1])
        BY <1>5, <4>1
      <4>. QED  BY <3>2, <4>1, <4>2
    <3>. QED  BY <3>1, <3>2
  <2>2. L = [k \in 0..n - 1 |-> L[k]]
    OBVIOUS
  <2> HIDE DEF L
  <2>. QED  BY <2>1, <2>2 DEF Levels
<1>8. \A k \in 0..n - 1 : LevelIs(s, L, k)
  BY <1>1, <1>7, LevelsAre
<1>9. ASSUME NEW h \in 1..n
      PROVE  /\ IsSeq(lvls[h]) /\ Len(lvls[h]) > 0
             /\ h = n => Len(lvls[h]) = 1
  <2>1. h - 1 \in 0..n - 1 /\ L[h - 1] = lvls[h]
    BY <1>1
  <2> HIDE DEF L
  <2>2. /\ IsSeq(lvls[h]) /\ Len(lvls[h]) \in Nat \ {0}
        /\ Len(lvls[h]) = 1 \/ Len(lvls[h]) <= n - (h - 1)
    BY <1>8, <2>1 DEF LevelIs
  <2> DEFINE len == Len(lvls[h])
  <2> HIDE DEF n, len
  <2>3. len \in Nat \ {0} /\ (len = 1 \/ len <= n - (h - 1))
    BY <2>2 DEF len
  <2>4. len > 0 /\ (h = n => len = 1)
    BY <1>1, <2>3
  <2>. QED  BY <2>2, <2>4 DEF len
<1>10. \A h \in 1..n - 1 : lvls[h + 1] = NextLevel(lvls[h])
  <2>. SUFFICES ASSUME NEW h \in 1..n - 1
                PROVE  lvls[h + 1] = NextLevel(lvls[h])
    OBVIOUS
  <2>1. h + 1 \in 2..n /\ (h + 1) - 1 = h
    BY <1>1
  <2>. QED  BY <1>5, <2>1
<1>11. n \in 1..n
  BY <1>1
<1>. QED  BY <1>1, <1>5, <1>6, <1>9, <1>10, <1>11 DEF LevelSeq, lvls

(* The root of a batch is a hash.                                          *)
LEMMA RootIsHash ==
    ASSUME NEW s, IsSeq(s), Len(s) > 0
    PROVE  Plain(compute_batch_root(s))
<1> DEFINE lvls == LevelsOf(s)
           m    == Len(lvls)
<1> HIDE DEF lvls
<1>1. LevelSeq(s, lvls)
  BY LevelsOfAre DEF lvls
<1>2. m \in 1..m /\ Len(lvls[m]) = 1 /\ compute_batch_root(s) = lvls[m][1]
  BY <1>1, LevelSeqFacts, LastIsRoot DEF LevelSeq
<1>3. AllPlain(lvls[m])
  BY <1>1, <1>2, NodesPlain
<1>. QED  BY <1>2, <1>3 DEF AllPlain

-----------------------------------------------------------------------------
(* A verifier holds every anchored receipt, and layer 1 has recorded all   *)
(* that was disclosed.                                                     *)
AnchoredDisclosed ==
    /\ OperatorInv /\ AnchoredOK /\ Handed
    /\ Len(anchored.part) > 0
    /\ recorded = DOMAIN receipts
    /\ \A p, q \in recorded : SeqOf(p) = SeqOf(q) => p = q
    /\ \A i \in DOMAIN anchored.part :
          EnvelopeOf(anchored.part[i]) \in Disclosed

(* Each anchored receipt is the one that layer 2 finds at its number.      *)
AnchoredAt(i) ==
    LET n == anchored.start + i - 1
    IN  /\ AnchoredHashes[i] = HashOf(BodyAt(anchored.part[i]))
        /\ \E p \in recorded : SeqOf(p) = Decimal(n)
        /\ HashAt(n) = AnchoredHashes[i]

LEMMA AnchoredFound ==
    ASSUME AnchoredDisclosed, NEW i \in DOMAIN anchored.part
    PROVE  AnchoredAt(i)
<1> DEFINE n == anchored.start + i - 1
           c == anchored.part[i]
<1>1. AnchoredHashes[i] = HashOf(BodyAt(c))
  BY DEF AnchoredHashes, receipt_hash
<1>2. PICK p \in DOMAIN receipts : receipts[p] = EnvelopeOf(c)
  BY DEF AnchoredDisclosed, Disclosed
<1>3. BodyOf(receipts[p]) = BodyAt(c) /\ BodyAt(c)["seq"] = Decimal(n)
  BY <1>2, IssuedEnvelope DEF AnchoredDisclosed, AnchoredOK
<1>4. p \in recorded /\ SeqOf(p) = Decimal(n) /\ ReceiptHash(p) = HashOf(BodyAt(c))
  BY <1>3 DEF AnchoredDisclosed, SeqOf, ReceiptHash
<1>5. \A q \in recorded : SeqOf(q) = Decimal(n) => q = p
  BY <1>4 DEF AnchoredDisclosed
<1>6. (CHOOSE q \in recorded : SeqOf(q) = Decimal(n)) = p
  BY <1>4, <1>5
<1>7. HashAt(n) = HashOf(BodyAt(c))
  BY <1>4, <1>6 DEF HashAt
<1>. QED  BY <1>1, <1>4, <1>7 DEF AnchoredAt

(* All receipts are of one tenant.                                         *)
LEMMA OneTenant ==
    ASSUME AnchoredDisclosed
    PROVE  Tenants = {TENANT}
<1> DEFINE last(s) == Max(EnvelopesWithSeq(s))
<1>1. PICK n \in Nat : \E choice \in [1..n -> DOMAIN issued] :
          receipts = [i \in 1..n |-> EnvelopeOf(choice[i])]
  BY DEF AnchoredDisclosed, Handed
<1>2. /\ DOMAIN receipts = 1..n
      /\ \A p \in DOMAIN receipts :
            \E c \in DOMAIN issued : receipts[p] = EnvelopeOf(c)
  BY <1>1
<1>3. ASSUME NEW p \in DOMAIN receipts
      PROVE  /\ IsObj(receipts[p]) /\ IsObj(Get(Members(receipts[p]), "body"))
             /\ Get(BodyOf(receipts[p]), "seq") = SeqOf(p)
             /\ Get(BodyOf(receipts[p]), "tenant") = TENANT
  <2>1. PICK c \in DOMAIN issued : receipts[p] = EnvelopeOf(c)
    BY <1>2
  <2>2. IsObj(receipts[p]) /\ IsObj(Get(Members(receipts[p]), "body"))
    BY <2>1 DEF EnvelopeOf, sign_body, Enveloped, Obj, Members, IsObj, Get
  <2>3. BodyOf(receipts[p]) = BodyAt(c)
    BY <2>1, IssuedEnvelope
  <2>4. PICK j, prev : BodyAt(c) = IssuedBody(j, prev, TickOf(c))
    <3>1. \E h \in Histories : \E j \in DOMAIN h :
             BodyAt(c) = IssuedBody(j, IF j = 1 THEN Genesis
                                ELSE receipt_hash(BodyAt(h[j - 1])), TickOf(c))
      BY IssuedReceipt DEF AnchoredDisclosed
    <3>. QED  BY <3>1
  <2>5. "seq" \in DOMAIN BodyAt(c) /\ "tenant" \in DOMAIN BodyAt(c)
        /\ BodyAt(c)["tenant"] = TENANT
    <3> DEFINE body == IssuedBody(j, prev, TickOf(c))
    <3>1. DOMAIN body = RECEIPT_BODY_REQUIRED_FIELDS /\ body["tenant"] = TENANT
      BY IssuedFields
    <3>2. {"seq", "tenant"} \subseteq RECEIPT_BODY_REQUIRED_FIELDS
      BY DEF RECEIPT_BODY_REQUIRED_FIELDS
    <3>. QED  BY <2>4, <3>1, <3>2
  <2>. QED  BY <2>2, <2>3, <2>5 DEF Get, SeqOf
<1>4. ASSUME NEW s \in RecordedSeqs
      PROVE  last(s) \in DOMAIN receipts
  <2> DEFINE S == EnvelopesWithSeq(s)
  <2>1. PICK q \in DOMAIN receipts : s = SeqOf(q)
    BY DEF RecordedSeqs, AnchoredDisclosed
  <2>2. q \in S
    BY <1>3, <2>1 DEF EnvelopesWithSeq
  <2>3. S \subseteq Nat /\ S \subseteq DOMAIN receipts /\ \A y \in S : y <= n
    BY <1>2 DEF EnvelopesWithSeq
  <2> HIDE DEF S
  <2>4. PICK m \in S : \A y \in S : y <= m
    BY <2>2, <2>3, GreatestNat
  <2>5. \E x \in S : \A y \in S : x >= y
    BY <2>3, <2>4
  <2>6. Max(S) \in S
    BY <2>5 DEF Max
  <2>. QED  BY <2>3, <2>6 DEF S
<1>5. RecordedSeqs # {}
  <2>1. 1 \in DOMAIN anchored.part
    BY SeqDomain DEF AnchoredDisclosed, AnchoredOK
  <2>2. AnchoredAt(1)
    BY <2>1, AnchoredFound
  <2>. QED  BY <2>2 DEF AnchoredAt, RecordedSeqs
<1>6. \A s \in RecordedSeqs : Get(BodyOf(receipts[last(s)]), "tenant") = TENANT
  BY <1>3, <1>4
<1>7. Tenants = {Get(BodyOf(receipts[last(s)]), "tenant") : s \in RecordedSeqs}
  BY DEF Tenants
<1> HIDE DEF last
<1>. QED  BY <1>5, <1>6, <1>7

(* The hashes layer 2 recomputes the root from are the anchored ones.      *)
LEMMA AnchoredInOrder ==
    ASSUME AnchoredDisclosed
    PROVE  LET size == Len(anchored.part)
           IN  /\ size \in Nat \ {0} /\ DOMAIN anchored.part = 1..size
               /\ anchored.start \in Nat
               /\ Covered(AnchorProof) = anchored.start..anchored.start + size - 1
               /\ OrderedHashes(AnchorProof) = AnchoredHashes
               /\ IsSeq(AnchoredHashes) /\ Len(AnchoredHashes) = size
<1> DEFINE size  == Len(anchored.part)
           start == anchored.start
           end   == start + size - 1
           C     == Covered(AnchorProof)
           H     == OrderedHashes(AnchorProof)
<1>1. /\ size \in Nat \ {0} /\ DOMAIN anchored.part = 1..size
      /\ start \in Nat /\ end \in Int
  BY SeqDomain DEF AnchoredDisclosed, AnchoredOK
<1>2. AnchorRange(AnchorProof) = start..end
  <2>1. /\ RangeStart(AnchorProof) = Decimal(start)
        /\ RangeEnd(AnchorProof) = Decimal(end)
    BY DEF AnchorProof, anchor_proof, RangeStart, RangeEnd, GetOr
  <2>. QED  BY <2>1 DEF AnchorRange, IntOf, Decimal
<1>3. IsSeq(AnchoredHashes) /\ Len(AnchoredHashes) = size
      /\ AnchoredHashes = [i \in 1..size |-> AnchoredHashes[i]]
  <2>1. AnchoredHashes = [i \in 1..size |-> receipt_hash(BodyAt(anchored.part[i]))]
    BY <1>1 DEF AnchoredHashes
  <2>. QED  BY <1>1, <2>1, SeqOfLength
<1> HIDE DEF size, start, end, C, H
<1>4. C = start..end
  <2>1. ASSUME NEW n \in start..end
        PROVE  \E p \in recorded : SeqOf(p) = Decimal(n)
    <3> DEFINE i == n - start + 1
    <3>1. i \in 1..size /\ start + i - 1 = n
      BY <1>1 DEF end
    <3> HIDE DEF i
    <3>2. AnchoredAt(i)
      BY <1>1, <3>1, AnchoredFound
    <3>. QED  BY <3>1, <3>2 DEF AnchoredAt, start
  <2>. QED  BY <1>2, <2>1 DEF C, Covered
<1>5. C \subseteq Int /\ IsFiniteSet(C) /\ Cardinality(C) = size
  <2>1. start \in Int /\ start <= end
    BY <1>1 DEF end
  <2>2. /\ IsFiniteSet(start..end)
        /\ Cardinality(start..end) = IF start > end THEN 0 ELSE end - start + 1
    BY <1>1, <2>1, FS_Interval
  <2>3. Cardinality(start..end) = size
    BY <1>1, <2>1, <2>2 DEF end
  <2>. QED  BY <1>1, <1>4, <2>2, <2>3
<1>6. /\ IsSeq(H) /\ Len(H) = size
      /\ \A i \in 1..size :
            \E n \in C : Cardinality(Below(C, n)) = i - 1 /\ H[i] = HashAt(n)
  BY <1>5, OrderedHashesAre DEF C, H
<1>7. ASSUME NEW i \in 1..size
      PROVE  H[i] = AnchoredHashes[i]
  <2>1. PICK n \in C : Cardinality(Below(C, n)) = i - 1 /\ H[i] = HashAt(n)
    BY <1>6
  <2>2. Cardinality(Below(C, n)) = n - start
    <3>1. start \in Int /\ end \in Int /\ n \in start..end
      BY <1>1, <1>4
    <3>. QED  BY <1>4, <3>1, RankInInterval
  <2>3. n = start + i - 1
    <3>1. n \in Int /\ start \in Int /\ i \in Int
      BY <1>1, <1>5
    <3>. QED  BY <2>1, <2>2, <3>1
  <2>4. AnchoredAt(i)
    BY <1>1, AnchoredFound
  <2>. QED  BY <2>1, <2>3, <2>4 DEF AnchoredAt, start
<1>8. H = AnchoredHashes
  <2>1. H = [i \in 1..size |-> H[i]]
    BY <1>6 DEF IsSeq
  <2>2. \A i \in 1..size : H[i] = AnchoredHashes[i]
    BY <1>7
  <2>. QED  BY <1>3, <2>1, <2>2
<1>. QED  BY <1>1, <1>3, <1>4, <1>8 DEF size, start, end, C, H

-----------------------------------------------------------------------------
(* The operator's proof for one receipt is accepted.                       *)
LEMMA AnchoredProven ==
    ASSUME AnchoredDisclosed, NEW i \in DOMAIN anchored.part
    PROVE  ProofErrors(proof_entry(AnchoredHashes[i], Decimal(i - 1),
                          HonestPath(LevelsOf(AnchoredHashes), i - 1)),
                       AnchorProof) = {}
<1> DEFINE size  == Len(anchored.part)
           s     == AnchoredHashes
           hash  == s[i]
           path  == HonestPath(LevelsOf(s), i - 1)
           entry == proof_entry(hash, Decimal(i - 1), path)
<1>1. /\ size \in Nat \ {0} /\ i \in 1..size /\ i - 1 \in 0..size - 1
      /\ anchored.start \in Nat /\ IsSeq(s) /\ Len(s) = size
  <2>1. /\ size \in Nat \ {0} /\ DOMAIN anchored.part = 1..size
        /\ anchored.start \in Nat /\ IsSeq(s) /\ Len(s) = size
    BY AnchoredInOrder
  <2> HIDE DEF size
  <2>. QED  BY <2>1
<1>2. hash = HashOf(BodyAt(anchored.part[i]))
  BY AnchoredFound DEF AnchoredAt
<1>3. IsStr(hash) /\ IsHex(hash) /\ StripPrefix(hash) = hash
  BY <1>2 DEF HashOf, IsStr, IsHex, IsText, StripPrefix, HashKinds
<1>4. BatchSize(AnchorProof) = size /\ BatchRoot(AnchorProof) = compute_batch_root(s)
  <2>1. /\ RangeStart(AnchorProof) = Decimal(anchored.start)
        /\ RangeEnd(AnchorProof) = Decimal(anchored.start + size - 1)
        /\ BatchRoot(AnchorProof) = compute_batch_root(s)
    BY DEF AnchorProof, anchor_proof, RangeStart, RangeEnd, BatchRoot, GetOr
  <2>2. BatchSize(AnchorProof) = (anchored.start + size - 1) - anchored.start + 1
    BY <2>1 DEF BatchSize, IntOf, Decimal
  <2> HIDE DEF size
  <2>. QED  BY <1>1, <2>1, <2>2
<1>5. verify_merkle_proof(hash, i - 1, path, compute_batch_root(s), size)
  <2>1. LevelSeq(s, LevelsOf(s)) /\ (i - 1) + 1 = i
    BY <1>1, LevelsOfAre
  <2>2. i - 1 \in 0..Len(s) - 1 /\ StripPrefix(hash) = s[(i - 1) + 1]
    BY <1>1, <1>3, <2>1
  <2> HIDE DEF size, s
  <2>. QED  BY <1>1, <1>3, <2>1, <2>2, HonestVerifies
<1> HIDE DEF size, s, hash, path
<1>6. /\ IsObj(entry)
      /\ Members(entry) = [receipt_hash |-> hash, leaf_index |-> Decimal(i - 1),
                           merkle_path |-> List(path)]
  BY DEF proof_entry, Obj, IsObj, Members
<1> HIDE DEF entry
<1>7. /\ GetOr(Members(entry), "receipt_hash", Empty) = hash
      /\ LeafIndex(Members(entry)) = Decimal(i - 1)
      /\ Get(Members(entry), "merkle_path") = List(path)
      /\ Members(entry)["merkle_path"] = List(path)
  BY <1>6 DEF Get, GetOr, LeafIndex
<1>8. /\ IsList(List(path)) /\ Items(List(path)) = path
      /\ HasInt(Decimal(i - 1)) /\ IntOf(Decimal(i - 1)) = i - 1
  BY DEF IsList, List, Items, HasInt, IntOf, IsText, IsStr, Decimal
<1>9. WellFormedProof(entry, size)
  BY <1>1, <1>3, <1>6, <1>7, <1>8 DEF WellFormedProof
<1>10. ProofErrors(entry, AnchorProof) = {}
  BY <1>4, <1>5, <1>7, <1>8, <1>9 DEF ProofErrors
<1>. QED  BY <1>10 DEF entry, hash, path, s

(* An anchor proof of receipts that were all disclosed and recorded has no *)
(* error.                                                                  *)
LEMMA AnchorHasNoErrors ==
    ASSUME AnchoredDisclosed
    PROVE  AnchorErrors(AnchorProof) = {}
<1> DEFINE size   == Len(anchored.part)
           s      == AnchoredHashes
           a      == AnchorProof
           root   == compute_batch_root(s)
           entry(i) == proof_entry(s[i], Decimal(i - 1),
                                   HonestPath(LevelsOf(s), i - 1))
           proofs == [i \in DOMAIN anchored.part |-> entry(i)]
<1>1. /\ size \in Nat \ {0} /\ DOMAIN anchored.part = 1..size
      /\ anchored.start \in Nat
      /\ Covered(a) = anchored.start..anchored.start + size - 1
      /\ OrderedHashes(a) = s /\ IsSeq(s) /\ Len(s) = size
  BY AnchoredInOrder
<1>2. /\ Get(a, "root_alg") = Text("merkle-sha256-v1")
      /\ Get(a, "tenant") = TENANT
      /\ BatchRoot(a) = root /\ CommitmentValue(a) = root
      /\ RangeStart(a) = Decimal(anchored.start)
      /\ RangeEnd(a) = Decimal(anchored.start + size - 1)
      /\ Proofs(a) = List(proofs)
  BY DEF AnchorProof, anchor_proof, Get, GetOr, BatchRoot, CommitmentValue,
         RangeStart, RangeEnd, Proofs
<1>3. IsHash(root) /\ IsHex(root)
  BY <1>1, RootIsHash DEF Plain
<1>4. \A i \in 1..size : ProofErrors(proofs[i], a) = {}
  BY <1>1, AnchoredProven
<1>5. \A i \in 1..size :
         /\ AnchoredAt(i) /\ IsObj(proofs[i])
         /\ Get(Members(proofs[i]), "receipt_hash") = s[i]
  <2>. SUFFICES ASSUME NEW i \in 1..size
                PROVE  /\ AnchoredAt(i) /\ IsObj(proofs[i])
                       /\ Get(Members(proofs[i]), "receipt_hash") = s[i]
    OBVIOUS
  <2>1. AnchoredAt(i)
    BY <1>1, AnchoredFound
  <2>2. proofs[i] = entry(i)
    BY <1>1
  <2>3. IsObj(entry(i)) /\ Get(Members(entry(i)), "receipt_hash") = s[i]
    BY DEF proof_entry, Obj, IsObj, Members, Get
  <2> HIDE DEF entry, s
  <2>. QED  BY <2>1, <2>2, <2>3
<1>6. /\ IsList(List(proofs)) /\ Items(List(proofs)) = proofs
      /\ DOMAIN proofs = 1..size
  BY <1>1 DEF IsList, List, Items
<1> HIDE DEF proofs, s, a, root, size
<1>7. RootAlgErrors(a) = {} /\ TenantErrors(a) = {}
  <2>1. Cardinality({TENANT}) = 1
    BY FS_Singleton
  <2>. QED  BY <1>2, <2>1, OneTenant DEF RootAlgErrors, TenantErrors
<1>8. CommitmentErrors(a) = {}
  <2>1. IsStr(root) /\ HasPrefix(root)
    BY <1>3 DEF IsHash, HasPrefix, IsText
  <2>. QED  BY <1>2, <2>1 DEF CommitmentErrors
<1>9. RootErrors(a) = {}
  <2>1. HasRange(a)
    BY <1>2 DEF HasRange, HasInt, IsText, IsStr, Decimal
  <2>2. Covered(a) # {}
    <3>1. anchored.start \in anchored.start..anchored.start + size - 1
      BY <1>1
    <3>. QED  BY <1>1, <3>1
  <2>. QED  BY <1>1, <1>2, <1>3, <2>1, <2>2 DEF RootErrors, root
<1>10. ProofListErrors(a) = {}
  <2>1. proofs # <<>>
    <3>1. 1 \in DOMAIN proofs
      BY <1>1, <1>6
    <3>. QED  BY <3>1
  <2>2. ASSUME NEW n \in Covered(a)
        PROVE  HashAt(n) \in ProofHashes(proofs)
    <3> DEFINE i == n - anchored.start + 1
    <3>1. i \in 1..size /\ anchored.start + i - 1 = n
      BY <1>1
    <3> HIDE DEF i
    <3>2. HashAt(n) = s[i]
      BY <1>5, <3>1 DEF AnchoredAt, s
    <3>. QED  BY <1>5, <1>6, <3>1, <3>2 DEF ProofHashes
  <2>. QED  BY <1>2, <1>6, <2>1, <2>2 DEF ProofListErrors
<1>11. FirstProofErrors(a) = {}
  BY <1>2, <1>4, <1>6 DEF FirstProofErrors
<1>. QED  BY <1>7, <1>8, <1>9, <1>10, <1>11 DEF AnchorErrors, ??, a

(* Any number of receipts and anchored receipts: an anchor proof is not    *)
(* refused where the receipts pass and those it is for are among them,     *)
(* whatever the order of the array and whatever was rolled back since.     *)
(* With AnchorStopsRollback: of receipts that pass, layer 2 refuses an     *)
(* anchor exactly if one it is for was left out.                           *)
THEOREM AnchorOfDisclosedStands == DisclosureSpec => []HonestAnchorStands
<1>1. DisclosureInv => HonestAnchorStands
  <2>. SUFFICES ASSUME DisclosureInv, Verified, ri = "PASS",
                       \A i \in DOMAIN anchored.part :
                          EnvelopeOf(anchored.part[i]) \in Disclosed,
                       anchor_validity = "FAIL"
                PROVE  FALSE
    BY DEF HonestAnchorStands
  <2>1. /\ OperatorInv /\ AnchoredOK /\ VerifierInv /\ Handed /\ AnchorHanded
        /\ pc = "done" /\ arguments = "well typed"
    BY DEF DisclosureInv, Verified
  <2>2. /\ anchor # Null
        /\ IsObj(anchor) => recorded # {} /\ AnchorErrors(Members(anchor)) # {}
    BY <2>1 DEF VerifierInv, AnchorRefused
  <2>3. anchor = Obj(AnchorProof) /\ anchored # Nothing
    BY <2>1, <2>2 DEF AnchorHanded
  <2>4. IsObj(anchor) /\ Members(anchor) = AnchorProof
    <3> HIDE DEF AnchorProof
    <3>. QED  BY <2>3 DEF Obj, Members, IsObj
  <2>5. recorded = DOMAIN receipts
    BY <2>1 DEF VerifierInv, PassRecordsAll
  <2>6. \A p, q \in recorded : SeqOf(p) = SeqOf(q) => p = q
    BY <2>1 DEF VerifierInv, RecordedIsSound
  <2>7. AnchoredDisclosed
    BY <2>1, <2>3, <2>5, <2>6 DEF AnchoredDisclosed, AnchoredOK
  <2>. QED  BY <2>2, <2>4, <2>7, AnchorHasNoErrors
<1>. QED  BY <1>1, DisclosureInvariant, PTL
=============================================================================
