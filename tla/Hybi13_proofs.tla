---------------------------- MODULE Hybi13_proofs ----------------------------
(***************************************************************************)
(* Proofs about Hybi13.tla, for any frames, any sizes and reads of any     *)
(* length.                                                                 *)
(***************************************************************************)
EXTENDS Hybi13, SequenceTheorems, NaturalsInduction, WellFoundedInduction, TLAPS

-----------------------------------------------------------------------------
(* Numbers and sequences *)

(* A set of numbers has a least one. *)
LEMMA LeastNumber ==
    ASSUME NEW S \in SUBSET Nat, S # {}
    PROVE  \E n \in S : \A m \in S : n <= m
<1>1. IsWellFoundedOn(OpToRel(<, Nat), Nat)
    BY NatLessThanWellFounded
<1>2. PICK n \in S : \A m \in Nat : <<m, n>> \in OpToRel(<, Nat) => m \notin S
    BY <1>1, WFMin
<1>3. \A m \in S : n <= m
    <2> SUFFICES ASSUME NEW m \in S, ~(n <= m) PROVE FALSE
        OBVIOUS
    <2>1. m \in Nat /\ n \in Nat /\ m < n
        OBVIOUS
    <2>2. <<m, n>> \in OpToRel(<, Nat)
        BY <2>1 DEF OpToRel
    <2> QED BY <1>2, <2>1, <2>2
<1> QED BY <1>3

LEMMA AppendValues ==
    ASSUME NEW S, NEW s \in Seq(S), NEW c \in S
    PROVE  /\ Append(s, c) \in Seq(S)
           /\ Len(s) \in Nat /\ DOMAIN s = 1..Len(s)
           /\ Len(Append(s, c)) = Len(s) + 1
           /\ DOMAIN Append(s, c) = 1..(Len(s) + 1)
           /\ \A i \in 1..Len(s) : Append(s, c)[i] = s[i]
           /\ Append(s, c)[Len(s) + 1] = c
BY LenProperties, AppendProperties

LEMMA ConcatValues ==
    ASSUME NEW S, NEW s \in Seq(S), NEW t \in Seq(S)
    PROVE  /\ s \o t \in Seq(S)
           /\ Len(s) \in Nat /\ Len(t) \in Nat
           /\ Len(s \o t) = Len(s) + Len(t)
           /\ DOMAIN s = 1..Len(s) /\ DOMAIN t = 1..Len(t)
           /\ DOMAIN (s \o t) = 1..(Len(s) + Len(t))
           /\ \A i \in 1..Len(s) : (s \o t)[i] = s[i]
           /\ \A i \in 1..Len(t) : (s \o t)[Len(s) + i] = t[i]
           /\ \A i \in 1..(Len(s) + Len(t)) :
                 (s \o t)[i] = IF i <= Len(s) THEN s[i] ELSE t[i - Len(s)]
BY LenProperties, ConcatProperties

LEMMA PartValues ==
    ASSUME NEW S, NEW s \in Seq(S), NEW m \in Nat, NEW n \in Nat, m <= n, n <= Len(s)
    PROVE  /\ SubSeq(s, m + 1, n) \in Seq(S)
           /\ Len(SubSeq(s, m + 1, n)) = n - m
           /\ \A i \in 1..(n - m) : SubSeq(s, m + 1, n)[i] = s[m + i]
<1>1. Len(s) \in Nat
    BY LenProperties
<1>2. \A i \in (m + 1)..n : i \in 1..Len(s)
    BY <1>1
<1>3. \A i \in (m + 1)..n : s[i] \in S
    BY <1>2, ElementOfSeq
<1>4. /\ SubSeq(s, m + 1, n) \in Seq(S)
      /\ Len(SubSeq(s, m + 1, n)) = IF m + 1 <= n THEN (n - (m + 1)) + 1 ELSE 0
      /\ \A i \in 1..((n - (m + 1)) + 1) : SubSeq(s, m + 1, n)[i] = s[((m + 1) + i) - 1]
    BY <1>3, SubSeqProperties
<1>5. \A i \in Nat : ((m + 1) + i) - 1 = m + i
    OBVIOUS
<1>6. /\ (n - (m + 1)) + 1 = n - m
      /\ (IF m + 1 <= n THEN (n - (m + 1)) + 1 ELSE 0) = n - m
    OBVIOUS
<1> DEFINE t == SubSeq(s, m + 1, n)
<1>7. t \in Seq(S) /\ Len(t) = n - m
    BY <1>4, <1>6, Zenon
<1>8. \A i \in 1..(n - m) : t[i] = s[((m + 1) + i) - 1]
    BY <1>4, <1>6, Zenon
<1> HIDE DEF t
<1>9. ASSUME NEW i \in 1..(n - m) PROVE t[i] = s[m + i]
    <2>1. t[i] = s[((m + 1) + i) - 1] /\ ((m + 1) + i) - 1 = m + i
        BY <1>5, <1>8
    <2> QED BY <2>1
<1> QED BY <1>7, <1>9 DEF t

-----------------------------------------------------------------------------
(* UTF-8 *)

LEMMA LeadFacts ==
    /\ DOMAIN Lead \subseteq ByteClasses
    /\ "continuation" \notin DOMAIN Lead /\ "never" \notin DOMAIN Lead
    /\ \A c \in DOMAIN Lead : Lead[c] \in 0..3
    /\ \A c \in ByteClasses : c \in DOMAIN Lead \/ c = "continuation" \/ c = "never"
BY DEF Lead, ByteClasses

(* s is valid text so far, and v is how many continuation bytes are due. *)
Checked(s, v) == v \in 0..3 /\ ValidSoFar(s) /\ DueIs(s, v)

LEMMA DecodeType ==
    ASSUME NEW v \in Reject..3, NEW c \in ByteClasses
    PROVE  decode(v, c) \in Reject..3
BY LeadFacts DEF decode, Reject, Accept

(* A text that goes on was valid before. *)
LEMMA ValidPrefix ==
    ASSUME NEW s \in Seq(ByteClasses), NEW t \in Seq(ByteClasses), ValidSoFar(s \o t)
    PROVE  ValidSoFar(s)
<1> DEFINE u == s \o t
<1>1. /\ Len(s) \in Nat /\ Len(t) \in Nat /\ DOMAIN s = 1..Len(s)
      /\ DOMAIN u = 1..(Len(s) + Len(t))
      /\ \A i \in 1..Len(s) : u[i] = s[i]
    BY ConcatValues
<1> SUFFICES ASSUME NEW i \in DOMAIN s
             PROVE  /\ s[i] # "never"
                    /\ s[i] = "continuation" =>
                          \E j \in 1..(i - 1) :
                             /\ s[j] \in DOMAIN Lead
                             /\ i - j <= Lead[s[j]]
                             /\ \A k \in (j + 1)..i : s[k] = "continuation"
                    /\ s[i] \in DOMAIN Lead =>
                          \A k \in (i + 1)..(i + Lead[s[i]]) :
                             k \in DOMAIN s => s[k] = "continuation"
    BY DEF ValidSoFar
<1>2. i \in DOMAIN u /\ u[i] = s[i] /\ i \in Nat
    BY <1>1
<1>3. s[i] # "never"
    BY <1>2 DEF ValidSoFar
<1>4. ASSUME s[i] = "continuation"
      PROVE  \E j \in 1..(i - 1) :
                /\ s[j] \in DOMAIN Lead
                /\ i - j <= Lead[s[j]]
                /\ \A k \in (j + 1)..i : s[k] = "continuation"
    <2>1. PICK j \in 1..(i - 1) :
             /\ u[j] \in DOMAIN Lead
             /\ i - j <= Lead[u[j]]
             /\ \A k \in (j + 1)..i : u[k] = "continuation"
        BY <1>2, <1>4 DEF ValidSoFar
    <2>2. u[j] = s[j] /\ \A k \in (j + 1)..i : u[k] = s[k]
        BY <1>1, <1>2
    <2> QED BY <2>1, <2>2
<1>5. ASSUME s[i] \in DOMAIN Lead, NEW k \in (i + 1)..(i + Lead[s[i]]), k \in DOMAIN s
      PROVE  s[k] = "continuation"
    <2>1. k \in DOMAIN u /\ u[k] = s[k]
        BY <1>1, <1>5
    <2> QED BY <1>2, <1>5, <2>1 DEF ValidSoFar
<1> QED BY <1>3, <1>4, <1>5

(* A byte that decode takes keeps the text valid. *)
LEMMA DecodeTakes ==
    ASSUME NEW s \in Seq(ByteClasses), NEW v, Checked(s, v),
           NEW c \in ByteClasses, decode(v, c) # Reject
    PROVE  Checked(Append(s, c), decode(v, c))
<1> DEFINE t == Append(s, c)
           n == Len(s)
<1>1. /\ n \in Nat /\ DOMAIN s = 1..n
      /\ Len(t) = n + 1 /\ DOMAIN t = 1..(n + 1)
      /\ \A i \in 1..n : t[i] = s[i]
      /\ t[n + 1] = c
    BY AppendValues
<1>2. v \in 0..3 /\ ValidSoFar(s) /\ DueIs(s, v)
    BY DEF Checked
<1> HIDE DEF t, n
<1>3. CASE v = 0
    <2>1. c \in DOMAIN Lead /\ decode(v, c) = Lead[c] /\ Lead[c] \in 0..3
        BY <1>3, LeadFacts DEF decode, Accept
    <2>2. \A i \in 1..n : s[i] \in DOMAIN Lead => Lead[s[i]] \in 0..3 /\ i + Lead[s[i]] <= n
        BY <1>1, <1>2, <1>3, LeadFacts DEF DueIs, EndsComplete, n
    <2>3. ASSUME NEW i \in DOMAIN t
          PROVE  /\ t[i] # "never"
                 /\ t[i] = "continuation" =>
                       \E j \in 1..(i - 1) :
                          /\ t[j] \in DOMAIN Lead
                          /\ i - j <= Lead[t[j]]
                          /\ \A k \in (j + 1)..i : t[k] = "continuation"
                 /\ t[i] \in DOMAIN Lead =>
                       \A k \in (i + 1)..(i + Lead[t[i]]) :
                          k \in DOMAIN t => t[k] = "continuation"
        <3>1. CASE i = n + 1
            BY <1>1, <2>1, <3>1, LeadFacts
        <3>2. CASE i \in 1..n
            <4>1. s[i] = "continuation" =>
                    \E j \in 1..(i - 1) :
                       /\ s[j] \in DOMAIN Lead
                       /\ i - j <= Lead[s[j]]
                       /\ \A k \in (j + 1)..i : s[k] = "continuation"
                BY <1>1, <1>2, <3>2 DEF ValidSoFar
            <4>2. t[i] = s[i] /\ \A j \in 1..(i - 1) : t[j] = s[j] /\ \A k \in (j + 1)..i : t[k] = s[k]
                BY <1>1, <3>2
            <4>3. s[i] \in DOMAIN Lead =>
                    \A k \in (i + 1)..(i + Lead[s[i]]) : k \in DOMAIN s /\ t[k] = s[k]
                BY <1>1, <2>2, <3>2
            <4>4. s[i] # "never" /\ (s[i] \in DOMAIN Lead =>
                    \A k \in (i + 1)..(i + Lead[s[i]]) : k \in DOMAIN s => s[k] = "continuation")
                BY <1>1, <1>2, <3>2 DEF ValidSoFar
            <4> QED BY <4>1, <4>2, <4>3, <4>4
        <3> QED BY <1>1, <3>1, <3>2
    <2>4. ValidSoFar(t)
        BY <2>3 DEF ValidSoFar
    <2>5. DueIs(t, Lead[c])
        <3>1. CASE Lead[c] = 0
            BY <1>1, <2>1, <2>2, <3>1 DEF DueIs, EndsComplete
        <3>2. CASE Lead[c] # 0
            <4>1. n + 1 \in DOMAIN t /\ t[n + 1] \in DOMAIN Lead
                BY <1>1, <2>1
            <4>2. n + 1 + Lead[t[n + 1]] = Len(t) + Lead[c]
                BY <1>1, <2>1
            <4>3. \A k \in (n + 2)..Len(t) : t[k] = "continuation"
                BY <1>1
            <4> QED BY <1>1, <3>2, <4>1, <4>2, <4>3 DEF DueIs
        <3> QED BY <3>1, <3>2
    <2> QED BY <2>1, <2>4, <2>5 DEF Checked, t
<1>4. CASE v # 0
    <2>1. c = "continuation" /\ decode(v, c) = v - 1 /\ v \in 1..3
        BY <1>2, <1>4, LeadFacts DEF decode, Accept, Reject
    <2>2. PICK w \in 1..n : /\ s[w] \in DOMAIN Lead
                            /\ w + Lead[s[w]] = n + v
                            /\ \A k \in (w + 1)..n : s[k] = "continuation"
        BY <1>1, <1>2, <1>4 DEF DueIs, n
    <2>3. Lead[s[w]] \in 0..3 /\ t[w] = s[w] /\ w \in Nat
        BY <1>1, <2>2, LeadFacts
    <2>4. \A k \in (w + 1)..(n + 1) : t[k] = "continuation"
        BY <1>1, <2>1, <2>2
    <2>5. ASSUME NEW i \in DOMAIN t
          PROVE  /\ t[i] # "never"
                 /\ t[i] = "continuation" =>
                       \E j \in 1..(i - 1) :
                          /\ t[j] \in DOMAIN Lead
                          /\ i - j <= Lead[t[j]]
                          /\ \A k \in (j + 1)..i : t[k] = "continuation"
                 /\ t[i] \in DOMAIN Lead =>
                       \A k \in (i + 1)..(i + Lead[t[i]]) :
                          k \in DOMAIN t => t[k] = "continuation"
        <3>1. CASE i = n + 1
            <4>1. w \in 1..(i - 1) /\ i - w <= Lead[t[w]] /\ t[w] \in DOMAIN Lead
                BY <2>1, <2>2, <2>3, <3>1, <1>1
            <4> QED BY <1>1, <2>1, <2>4, <3>1, <4>1, LeadFacts
        <3>2. CASE i \in 1..n
            <4>1. s[i] = "continuation" =>
                    \E j \in 1..(i - 1) :
                       /\ s[j] \in DOMAIN Lead
                       /\ i - j <= Lead[s[j]]
                       /\ \A k \in (j + 1)..i : s[k] = "continuation"
                BY <1>1, <1>2, <3>2 DEF ValidSoFar
            <4>2. t[i] = s[i] /\ \A j \in 1..(i - 1) : t[j] = s[j] /\ \A k \in (j + 1)..i : t[k] = s[k]
                BY <1>1, <3>2
            <4>3. s[i] # "never" /\ (s[i] \in DOMAIN Lead =>
                    \A k \in (i + 1)..(i + Lead[s[i]]) : k \in DOMAIN s => s[k] = "continuation")
                BY <1>1, <1>2, <3>2 DEF ValidSoFar
            <4>4. \A k \in DOMAIN t : (k \in DOMAIN s /\ t[k] = s[k]) \/ t[k] = "continuation"
                BY <1>1, <2>1
            <4> QED BY <4>1, <4>2, <4>3, <4>4
        <3> QED BY <1>1, <3>1, <3>2
    <2>6. ValidSoFar(t)
        BY <2>5 DEF ValidSoFar
    <2>7. DueIs(t, v - 1)
        <3>1. CASE v = 1
            <4> SUFFICES ASSUME NEW i \in 1..(n + 1), t[i] \in DOMAIN Lead
                         PROVE  i + Lead[t[i]] <= n + 1
                BY <1>1, <3>1 DEF DueIs, EndsComplete
            <4>1. CASE i > w
                BY <2>4, <4>1, LeadFacts, <2>3
            <4>2. CASE i = w
                BY <2>2, <2>3, <3>1, <4>2
            <4>3. CASE i < w
                <5>1. t[i] = s[i] /\ i \in DOMAIN s /\ w \in DOMAIN s /\ Lead[s[i]] \in 0..3
                    BY <1>1, <2>3, <4>3, LeadFacts
                <5>2. ~(i + Lead[s[i]] >= w)
                    <6> SUFFICES ASSUME i + Lead[s[i]] >= w PROVE FALSE
                        OBVIOUS
                    <6>1. w \in (i + 1)..(i + Lead[s[i]])
                        BY <2>3, <4>3, <5>1
                    <6>2. s[w] = "continuation"
                        BY <1>2, <5>1, <6>1 DEF ValidSoFar
                    <6> QED BY <2>2, <6>2, LeadFacts
                <5> QED BY <1>1, <2>3, <5>1, <5>2
            <4> QED BY <2>3, <4>1, <4>2, <4>3
        <3>2. CASE v # 1
            <4>1. w \in DOMAIN t /\ t[w] \in DOMAIN Lead /\ w + Lead[t[w]] = Len(t) + (v - 1)
                BY <1>1, <2>1, <2>2, <2>3
            <4>2. \A k \in (w + 1)..Len(t) : t[k] = "continuation"
                BY <1>1, <2>4
            <4> QED BY <2>1, <3>2, <4>1, <4>2 DEF DueIs
        <3> QED BY <3>1, <3>2
    <2> QED BY <2>1, <2>6, <2>7 DEF Checked, t
<1> QED BY <1>3, <1>4

(* A byte that decode rejects ends no valid text. *)
LEMMA DecodeRejects ==
    ASSUME NEW s \in Seq(ByteClasses), NEW v, Checked(s, v),
           NEW c \in ByteClasses, decode(v, c) = Reject
    PROVE  ~ValidSoFar(Append(s, c))
<1> DEFINE t == Append(s, c)
           n == Len(s)
<1>1. /\ n \in Nat /\ DOMAIN s = 1..n
      /\ Len(t) = n + 1 /\ DOMAIN t = 1..(n + 1)
      /\ \A i \in 1..n : t[i] = s[i]
      /\ t[n + 1] = c
    BY AppendValues
<1>2. v \in 0..3 /\ ValidSoFar(s) /\ DueIs(s, v)
    BY DEF Checked
<1> SUFFICES ASSUME ValidSoFar(t) PROVE FALSE
    OBVIOUS
<1> HIDE DEF t, n
<1>3. c # "never"
    BY <1>1 DEF ValidSoFar
<1>4. CASE v = 0
    <2>1. c = "continuation"
        BY <1>3, <1>4, LeadFacts DEF decode, Accept, Reject
    <2>2. PICK j \in 1..n : t[j] \in DOMAIN Lead /\ n + 1 - j <= Lead[t[j]]
        BY <1>1, <2>1 DEF ValidSoFar
    <2>3. j + Lead[s[j]] <= n /\ s[j] = t[j] /\ Lead[s[j]] \in 0..3
        BY <1>1, <1>2, <1>4, <2>2, LeadFacts DEF DueIs, EndsComplete, n
    <2> QED BY <1>1, <2>2, <2>3
<1>5. CASE v # 0
    <2>1. c \in DOMAIN Lead
        BY <1>2, <1>3, <1>5, LeadFacts DEF decode, Accept, Reject
    <2>2. PICK w \in 1..n : s[w] \in DOMAIN Lead /\ w + Lead[s[w]] = n + v
        BY <1>1, <1>2, <1>5 DEF DueIs, n
    <2>3. n + 1 \in (w + 1)..(w + Lead[t[w]]) /\ t[w] \in DOMAIN Lead
        BY <1>1, <1>2, <1>5, <2>2, LeadFacts
    <2>4. t[n + 1] = "continuation"
        BY <1>1, <2>3 DEF ValidSoFar
    <2> QED BY <1>1, <2>1, <2>4, LeadFacts
<1> QED BY <1>4, <1>5

(***************************************************************************)
(* decoded runs over the bytes: some function gives the state behind each  *)
(* of them, and its last value is the one decoded returns.                 *)
(***************************************************************************)
Run(v, bytes, n, after) ==
    after = [i \in 0..n |-> IF i = 0 THEN v ELSE decode(after[i - 1], bytes[i])]

LEMMA RunExists ==
    ASSUME NEW v, NEW bytes, NEW n \in Nat
    PROVE  \E after : Run(v, bytes, n, after)
<1> DEFINE None == {m \in Nat : ~\E after : Run(v, bytes, m, after)}
<1> SUFFICES ASSUME None # {} PROVE FALSE
    OBVIOUS
<1>1. PICK m \in None : \A k \in None : m <= k
    BY LeastNumber
<1>2. m \in Nat /\ ~\E after : Run(v, bytes, m, after)
    OBVIOUS
<1>3. m # 0
    <2>1. Run(v, bytes, 0, [i \in 0..0 |-> v])
        BY DEF Run
    <2> QED BY <1>2, <2>1
<1>4. m - 1 \in Nat /\ m - 1 \notin None
    BY <1>1, <1>2, <1>3
<1>5. PICK before : Run(v, bytes, m - 1, before)
    BY <1>4
<1> DEFINE after == [i \in 0..m |-> IF i < m THEN before[i]
                                    ELSE decode(before[m - 1], bytes[m])]
<1>6. ASSUME NEW i \in 0..m
      PROVE  after[i] = IF i = 0 THEN v ELSE decode(after[i - 1], bytes[i])
    <2>1. CASE i = m
        BY <1>2, <1>3, <2>1
    <2>2. CASE i < m
        <3>1. i \in 0..(m - 1) /\ after[i] = before[i] /\ (i # 0 => after[i - 1] = before[i - 1])
            BY <1>2, <2>2
        <3>2. before[i] = IF i = 0 THEN v ELSE decode(before[i - 1], bytes[i])
            BY <1>5, <3>1 DEF Run
        <3> QED BY <3>1, <3>2
    <2> QED BY <1>2, <2>1, <2>2
<1>7. Run(v, bytes, m, after)
    BY <1>6 DEF Run
<1> QED BY <1>2, <1>7

LEMMA DecodedIsRun ==
    ASSUME NEW v, NEW bytes \in Seq(ByteClasses)
    PROVE  \E after : /\ after[0] = v
                      /\ \A i \in 1..Len(bytes) : after[i] = decode(after[i - 1], bytes[i])
                      /\ decoded(v, bytes) = after[Len(bytes)]
<1> DEFINE after == CHOOSE a : Run(v, bytes, Len(bytes), a)
<1>1. Len(bytes) \in Nat
    BY LenProperties
<1>2. Run(v, bytes, Len(bytes), after)
    BY <1>1, RunExists
<1>3. decoded(v, bytes) = after[Len(bytes)]
    BY DEF decoded, Run
<1> HIDE DEF after
<1>4. after[0] = v
    BY <1>1, <1>2 DEF Run
<1>5. \A i \in 1..Len(bytes) : after[i] = decode(after[i - 1], bytes[i])
    BY <1>1, <1>2 DEF Run
<1> QED BY <1>3, <1>4, <1>5

(* Bytes that are decoded one by one: the text they end is valid, or not. *)
LEMMA DecodedText ==
    ASSUME NEW s \in Seq(ByteClasses), NEW v, Checked(s, v),
           NEW bytes \in Seq(ByteClasses)
    PROVE  \/ decoded(v, bytes) # Reject /\ Checked(s \o bytes, decoded(v, bytes))
           \/ decoded(v, bytes) = Reject /\ ~ValidSoFar(s \o bytes)
<1>1. PICK after : /\ after[0] = v
                   /\ \A i \in 1..Len(bytes) : after[i] = decode(after[i - 1], bytes[i])
                   /\ decoded(v, bytes) = after[Len(bytes)]
    BY DecodedIsRun
<1> DEFINE upto(n) == s \o SubSeq(bytes, 1, n)
           Ok(n) == \/ after[n] # Reject /\ Checked(upto(n), after[n])
                    \/ after[n] = Reject /\ ~ValidSoFar(upto(n))
           Not == {n \in 0..Len(bytes) : ~Ok(n)}
<1>2. Len(bytes) \in Nat /\ Len(s) \in Nat
    BY LenProperties
<1>3. Not = {}
    <2> SUFFICES ASSUME Not # {} PROVE FALSE
        OBVIOUS
    <2>1. Not \in SUBSET Nat
        BY <1>2
    <2>2. PICK n \in Not : \A m \in Not : n <= m
        BY <2>1, LeastNumber
    <2>3. n \in 0..Len(bytes) /\ ~Ok(n)
        OBVIOUS
    <2>4. n # 0
        <3>1. upto(0) = s
            BY <1>2, ConcatEmptySeq, SubSeqEmpty
        <3>2. v # Reject
            BY DEF Checked, Reject
        <3> QED BY <1>1, <2>3, <3>1, <3>2
    <2>5. n - 1 \in 0..Len(bytes) /\ Ok(n - 1) /\ n \in 1..Len(bytes)
        BY <1>2, <2>2, <2>3, <2>4
    <2>6. after[n] = decode(after[n - 1], bytes[n])
        BY <1>1, <2>5
    <2>7. /\ bytes[n] \in ByteClasses
          /\ upto(n - 1) \in Seq(ByteClasses)
          /\ upto(n) = Append(upto(n - 1), bytes[n])
        <3>1. SubSeq(bytes, 1, n - 1) \in Seq(ByteClasses) /\ bytes[n] \in ByteClasses
            BY <1>2, <2>5, SubSeqProperties, ElementOfSeq
        <3>2. SubSeq(bytes, 1, n) = Append(SubSeq(bytes, 1, n - 1), bytes[n])
            BY <1>2, <2>5
        <3>3. \A a, b \in Seq(ByteClasses), c \in ByteClasses :
                a \o Append(b, c) = Append(a \o b, c)
            OBVIOUS
        <3> QED BY <3>1, <3>2, <3>3, ConcatProperties
    <2> HIDE DEF upto
    <2>8. CASE after[n - 1] # Reject
        <3>1. Checked(upto(n - 1), after[n - 1])
            BY <2>5, <2>8
        <3> QED BY <2>3, <2>6, <2>7, <3>1, DecodeTakes, DecodeRejects
    <2>9. CASE after[n - 1] = Reject
        <3>1. after[n] = Reject
            BY <2>6, <2>9 DEF decode, Reject, Accept
        <3>2. ~ValidSoFar(upto(n - 1))
            BY <2>5, <2>9
        <3>3. upto(n) = upto(n - 1) \o <<bytes[n]>> /\ <<bytes[n]>> \in Seq(ByteClasses)
            BY <2>7, AppendIsConcat
        <3>4. ~ValidSoFar(upto(n))
            BY <2>7, <3>2, <3>3, ValidPrefix
        <3> QED BY <2>3, <3>1, <3>4
    <2> QED BY <2>8, <2>9
<1>4. Ok(Len(bytes)) /\ upto(Len(bytes)) = s \o bytes
    BY <1>2, <1>3, SubSeqFull
<1> QED BY <1>1, <1>4

-----------------------------------------------------------------------------
(* Frames and their bytes *)

LEMMA FrameType ==
    ASSUME NEW f \in Frames
    PROVE  /\ f.fin \in BOOLEAN /\ f.rsv \in BOOLEAN /\ f.masked \in BOOLEAN
           /\ f.op \in Opcodes
           /\ f.size \in 0..PayloadSizeBasic \cup Codes
           /\ f.extended \in Seq(Nat) /\ f.payload \in Seq(ByteClasses)
           /\ Len(f.extended) \in Nat /\ Len(f.payload) \in Nat
           /\ Len(f.extended) = ExtendedLen(Header(f))
           /\ Len(f.payload) = get_payload_size(Header(f), f.extended)
BY FramesAssumption, LenProperties

(* The values that may be bytes of the frame. *)
Bytes(f) == {[fin |-> f.fin, rsv |-> f.rsv, op |-> f.op], Header(f)} \cup Nat \cup ByteClasses

LEMMA EncodedParts ==
    ASSUME NEW f \in Frames
    PROVE  /\ Encoded(f) \in Seq(Bytes(f))
           /\ Len(Encoded(f)) = 2 + Len(f.extended) + Len(f.payload)
           /\ Encoded(f)[1] = [fin |-> f.fin, rsv |-> f.rsv, op |-> f.op]
           /\ Encoded(f)[2] = Header(f)
           /\ \A i \in 1..Len(f.extended) : Encoded(f)[2 + i] = f.extended[i]
           /\ \A i \in 1..Len(f.payload) :
                 Encoded(f)[2 + Len(f.extended) + i] = f.payload[i]
<1> DEFINE b0 == [fin |-> f.fin, rsv |-> f.rsv, op |-> f.op]
           h == <<b0, Header(f)>>
<1>1. /\ f.extended \in Seq(Bytes(f)) /\ f.payload \in Seq(Bytes(f))
      /\ Len(f.extended) \in Nat /\ Len(f.payload) \in Nat
    <2>1. \A S, T : S \subseteq T => \A s \in Seq(S) : s \in Seq(T)
        OBVIOUS
    <2>2. Nat \subseteq Bytes(f) /\ ByteClasses \subseteq Bytes(f)
        BY DEF Bytes
    <2> QED BY <2>1, <2>2, FrameType
<1>2. h \in Seq(Bytes(f)) /\ Len(h) = 2 /\ h[1] = b0 /\ h[2] = Header(f)
    <2>1. b0 \in Bytes(f) /\ Header(f) \in Bytes(f)
        BY DEF Bytes
    <2> HIDE DEF b0
    <2> QED BY <2>1
<1> HIDE DEF h
<1>3. /\ h \o f.extended \in Seq(Bytes(f))
      /\ Len(h \o f.extended) = 2 + Len(f.extended)
      /\ (h \o f.extended)[1] = b0 /\ (h \o f.extended)[2] = Header(f)
      /\ \A i \in 1..Len(f.extended) : (h \o f.extended)[2 + i] = f.extended[i]
    <2>1. /\ h \o f.extended \in Seq(Bytes(f))
          /\ Len(h \o f.extended) = Len(h) + Len(f.extended)
          /\ \A i \in 1..Len(h) : (h \o f.extended)[i] = h[i]
          /\ \A i \in 1..Len(f.extended) : (h \o f.extended)[Len(h) + i] = f.extended[i]
        <3>1. h \in Seq(Bytes(f)) /\ f.extended \in Seq(Bytes(f))
            BY <1>1, <1>2
        <3> QED BY <3>1, ConcatValues
    <2> QED BY <1>2, <2>1
<1>4. Encoded(f) = (h \o f.extended) \o f.payload
    BY DEF Encoded, h
<1> DEFINE g == h \o f.extended
<1>5. /\ g \in Seq(Bytes(f)) /\ Len(g) = 2 + Len(f.extended)
      /\ g[1] = b0 /\ g[2] = Header(f)
      /\ \A i \in 1..Len(f.extended) : g[2 + i] = f.extended[i]
      /\ Encoded(f) = g \o f.payload
    BY <1>3, <1>4
<1> HIDE DEF g, b0
<1>6. /\ Encoded(f) \in Seq(Bytes(f))
      /\ Len(Encoded(f)) = Len(g) + Len(f.payload)
      /\ \A i \in 1..Len(g) : Encoded(f)[i] = g[i]
      /\ \A i \in 1..Len(f.payload) : Encoded(f)[Len(g) + i] = f.payload[i]
    <2>1. /\ g \o f.payload \in Seq(Bytes(f))
          /\ Len(g \o f.payload) = Len(g) + Len(f.payload)
          /\ \A i \in 1..Len(g) : (g \o f.payload)[i] = g[i]
          /\ \A i \in 1..Len(f.payload) : (g \o f.payload)[Len(g) + i] = f.payload[i]
        <3>1. g \in Seq(Bytes(f)) /\ f.payload \in Seq(Bytes(f))
            BY <1>1, <1>5
        <3> QED BY <3>1, ConcatValues
    <2> QED BY <1>5, <2>1
<1> QED BY <1>1, <1>5, <1>6 DEF b0

LEMMA MessageOpType ==
    ASSUME NEW f \in Frames, NEW p \in Partials, HeaderLegal(f, p), ~is_control(f.op)
    PROVE  MessageOp(f, p) \in {"text", "binary"}
BY FrameType DEF HeaderLegal, MessageOp, is_control, Opcodes, Partials

LEMMA WholeType ==
    ASSUME NEW f \in Frames, NEW p \in Partials
    PROVE  /\ Prior(f, p) \in Seq(ByteClasses)
           /\ Whole(f, p) \in Seq(ByteClasses)
           /\ Len(Whole(f, p)) = Len(Prior(f, p)) + Len(f.payload)
<1>1. Prior(f, p) \in Seq(ByteClasses)
    BY DEF Prior, Partials
<1> QED BY <1>1, FrameType, ConcatValues DEF Whole

LEMMA AfterType ==
    ASSUME NEW f \in Frames, NEW p \in Partials, p.op = "none" => p.payload = <<>>
    PROVE  /\ After(f, p) \in Partials
           /\ After(f, p).op = "none" => After(f, p).payload = <<>>
<1>1. NoPartial \in Partials /\ NoPartial.payload = <<>>
    BY DEF NoPartial, Partials
<1>2. ASSUME ~is_control(f.op), Flaw(f, p) = "none"
      PROVE  MessageOp(f, p) \in {"text", "binary"}
    BY <1>2, MessageOpType DEF Flaw
<1> QED BY <1>1, <1>2, WholeType DEF After, Partials

(* Bytes that are in order stay so when the first ones are taken. *)
LEMMA InOrderTaken ==
    ASSUME NEW b, NEW s \in Seq(FrameBytes), NEW p, InOrder(b, s, p),
           NEW n \in 1..Len(s)
    PROVE  InOrder(s[n], SubSeq(s, n + 1, Len(s)), p) /\ IsByte(s[n])
<1> DEFINE t == SubSeq(s, n + 1, Len(s))
<1>1. /\ Len(s) \in Nat /\ DOMAIN s = 1..Len(s)
      /\ t \in Seq(FrameBytes) /\ Len(t) = Len(s) - n /\ DOMAIN t = 1..(Len(s) - n)
      /\ \A i \in 1..(Len(s) - n) : t[i] = s[n + i]
    BY LenProperties, SubSeqProperties
<1>2. IsByte(s[n])
    BY <1>1 DEF InOrder
<1> HIDE DEF t
<1>3. ASSUME NEW i \in DOMAIN t
      PROVE  /\ IsByte(t[i])
             /\ Follows(IF i = 1 THEN s[n] ELSE t[i - 1], t[i])
    <2>1. n + i \in DOMAIN s /\ n + i # 1 /\ t[i] = s[n + i]
        BY <1>1
    <2>2. IsByte(s[n + i]) /\ Follows(s[(n + i) - 1], s[n + i])
        BY <2>1 DEF InOrder
    <2>3. (IF i = 1 THEN s[n] ELSE t[i - 1]) = s[(n + i) - 1]
        BY <1>1
    <2> QED BY <1>1, <2>1, <2>2, <2>3
<1>4. (IF t = <<>> THEN s[n] ELSE t[Len(t)]) = s[Len(s)] /\ s # <<>>
    BY <1>1
<1>5. Complete(s[Len(s)]) /\ p = Unfinished(s[Len(s)])
    BY <1>4 DEF InOrder
<1>6. InOrder(s[n], t, p)
    BY <1>2, <1>3, <1>4, <1>5 DEF InOrder
<1> QED BY <1>2, <1>6 DEF t

LEMMA UnfinishedType ==
    ASSUME NEW b, b = NoByte \/ IsByte(b)
    PROVE  /\ Unfinished(b) \in Partials
           /\ Unfinished(b).op = "none" => Unfinished(b).payload = <<>>
<1>1. CASE b = NoByte
    BY <1>1 DEF NoByte, Unfinished, NoPartial, Partials
<1>2. CASE IsByte(b)
    BY <1>2, AfterType DEF IsByte, FrameBytes, Unfinished
<1> QED BY <1>1, <1>2

(* The bytes of another frame go on where the last one ended. *)
LEMMA InOrderSent ==
    ASSUME NEW b, NEW s \in Seq(FrameBytes), NEW p, InOrder(b, s, p),
           NEW f \in Frames
    PROVE  LET t == [i \in 1..Len(Encoded(f)) |-> Byte(f, i, p)]
           IN  t \in Seq(FrameBytes) /\ InOrder(b, s \o t, After(f, p))
<1> DEFINE L == Len(Encoded(f))
           t == [i \in 1..L |-> Byte(f, i, p)]
           u == s \o t
           last == IF s = <<>> THEN b ELSE s[Len(s)]
<1>1. L \in Nat /\ L >= 2
    <2>1. L = 2 + Len(f.extended) + Len(f.payload)
        BY EncodedParts
    <2>2. Len(f.extended) \in Nat /\ Len(f.payload) \in Nat
        BY FrameType
    <2>3. \A l, m, n : m \in Nat /\ n \in Nat /\ l = 2 + m + n => l \in Nat /\ l >= 2
        OBVIOUS
    <2> QED BY <2>1, <2>2, <2>3, Zenon
<1>2. Len(s) \in Nat /\ DOMAIN s = 1..Len(s)
    BY LenProperties
<1>3. /\ Complete(last) /\ p = Unfinished(last)
      /\ last = NoByte \/ IsByte(last)
    BY <1>2 DEF InOrder
<1>4. p \in Partials /\ (p.op = "none" => p.payload = <<>>)
    BY <1>3, UnfinishedType
<1>5. \A i \in 1..L : IsByte(Byte(f, i, p)) /\ Byte(f, i, p).at = i
    BY <1>1, <1>4 DEF IsByte, FrameBytes, Byte
<1>6. /\ t \in Seq(FrameBytes) /\ Len(t) = L /\ \A i \in 1..L : t[i] = Byte(f, i, p)
    BY <1>1, <1>5 DEF IsByte
<1> HIDE DEF t, L, last
<1>7. /\ u \in Seq(FrameBytes) /\ DOMAIN u = 1..(Len(s) + L) /\ Len(u) = Len(s) + L
      /\ \A i \in 1..Len(s) : u[i] = s[i]
      /\ \A i \in 1..L : u[Len(s) + i] = Byte(f, i, p)
    <2>1. /\ u \in Seq(FrameBytes) /\ DOMAIN u = 1..(Len(s) + Len(t)) /\ Len(u) = Len(s) + Len(t)
          /\ \A i \in 1..Len(s) : u[i] = s[i]
          /\ \A i \in 1..Len(t) : u[Len(s) + i] = t[i]
        <3>1. s \in Seq(FrameBytes) /\ t \in Seq(FrameBytes)
            BY <1>6
        <3> QED BY <3>1, ConcatValues DEF u
    <2> QED BY <1>6, <2>1
<1> HIDE DEF u
<1>8. ASSUME NEW i \in DOMAIN u
      PROVE  /\ IsByte(u[i])
             /\ Follows(IF i = 1 THEN b ELSE u[i - 1], u[i])
    <2>1. CASE i \in 1..Len(s)
        <3>1. IsByte(s[i]) /\ Follows(IF i = 1 THEN b ELSE s[i - 1], s[i])
            BY <1>2, <2>1 DEF InOrder
        <3>2. u[i] = s[i] /\ (i # 1 => u[i - 1] = s[i - 1])
            BY <1>2, <1>7, <2>1
        <3> QED BY <3>1, <3>2
    <2>2. CASE i = Len(s) + 1
        <3>1. u[i] = Byte(f, 1, p)
            BY <1>1, <1>7, <2>2
        <3>2. (IF i = 1 THEN b ELSE u[i - 1]) = last
            BY <1>2, <1>7, <2>2 DEF last
        <3>3. Follows(last, Byte(f, 1, p))
            BY <1>3 DEF Follows, Byte
        <3> QED BY <1>1, <1>5, <3>1, <3>2, <3>3
    <2>3. CASE i \in (Len(s) + 2)..(Len(s) + L)
        <3> DEFINE k == i - Len(s)
        <3>1. k \in 2..L /\ i # 1 /\ u[i] = Byte(f, k, p) /\ u[i - 1] = Byte(f, k - 1, p)
            <4>1. k \in 2..L /\ i # 1 /\ i = Len(s) + k /\ i - 1 = Len(s) + (k - 1)
                BY <1>1, <1>2, <2>3
            <4> QED BY <1>1, <1>7, <4>1
        <3> HIDE DEF k
        <3>2. ~Complete(Byte(f, k - 1, p))
            BY <1>1, <3>1 DEF Complete, Byte, L
        <3>3. Byte(f, k, p) = Byte(Byte(f, k - 1, p).of, Byte(f, k - 1, p).at + 1,
                                   Byte(f, k - 1, p).before)
            BY <1>1, <3>1 DEF Byte
        <3> QED BY <1>1, <1>5, <3>1, <3>2, <3>3 DEF Follows
    <2> QED BY <1>1, <1>2, <1>7, <2>1, <2>2, <2>3
<1>9. /\ (IF u = <<>> THEN b ELSE u[Len(u)]) = Byte(f, L, p)
      /\ Complete(Byte(f, L, p)) /\ After(f, p) = Unfinished(Byte(f, L, p))
    <2>1. u # <<>> /\ u[Len(u)] = Byte(f, L, p)
        BY <1>1, <1>2, <1>7
    <2> QED BY <1>1, <2>1 DEF Complete, Unfinished, Byte, L
<1>10. InOrder(b, u, After(f, p))
    BY <1>8, <1>9 DEF InOrder
<1> QED BY <1>6, <1>10 DEF t, u, L

LEMMA ByteParts ==
    /\ \A b \in FrameBytes : b = Byte(b.of, b.at, b.before)
    /\ \A f, i, p : /\ Byte(f, i, p).of = f
                    /\ Byte(f, i, p).at = i
                    /\ Byte(f, i, p).before = p
BY DEF FrameBytes, Byte

(* Behind a byte come the other bytes of its frame. *)
LEMMA InOrderFrame ==
    ASSUME NEW b, IsByte(b), NEW s \in Seq(FrameBytes), NEW p, InOrder(b, s, p),
           NEW j \in 1..Len(s), b.at + j <= Len(Encoded(b.of))
    PROVE  s[j] = Byte(b.of, b.at + j, b.before)
<1> DEFINE L == Len(Encoded(b.of))
           Later(k) == Byte(b.of, b.at + k, b.before)
           Not == {k \in 1..Len(s) : b.at + k <= L /\ s[k] # Later(k)}
<1>1. /\ Len(s) \in Nat /\ DOMAIN s = 1..Len(s)
      /\ b \in FrameBytes /\ b.of \in Frames /\ b.at \in Nat /\ b.at > 0
    BY LenProperties DEF IsByte, FrameBytes
<1>2. L \in Nat
    BY <1>1, EncodedParts, LenProperties
<1>3. Not = {}
    <2> SUFFICES ASSUME Not # {} PROVE FALSE
        OBVIOUS
    <2>1. Not \in SUBSET Nat
        BY <1>1
    <2>2. PICK k \in Not : \A m \in Not : k <= m
        BY <2>1, LeastNumber
    <2>3. k \in 1..Len(s) /\ b.at + k <= L /\ s[k] # Later(k)
        OBVIOUS
    <2>4. Follows(IF k = 1 THEN b ELSE s[k - 1], s[k])
        BY <1>1, <2>3 DEF InOrder
    <2>5. (IF k = 1 THEN b ELSE s[k - 1]) = Later(k - 1)
        <3>1. CASE k = 1
            BY <1>1, <3>1, ByteParts
        <3>2. CASE k # 1
            <4>1. k - 1 \in 1..Len(s) /\ k - 1 \notin Not /\ b.at + (k - 1) <= L
                BY <1>1, <1>2, <2>2, <2>3, <3>2
            <4> QED BY <3>2, <4>1
        <3> QED BY <3>1, <3>2
    <2>6. ~Complete(Later(k - 1))
        BY <1>1, <1>2, <2>3, ByteParts DEF Complete
    <2>7. s[k] = Byte(b.of, b.at + (k - 1) + 1, b.before)
        BY <2>4, <2>5, <2>6, ByteParts DEF Follows
    <2> QED BY <1>1, <2>3, <2>7
<1> QED BY <1>1, <1>3

-----------------------------------------------------------------------------
(* One turn of consume's loop *)

(* What is left of a sequence when its first elements are taken. *)
LEMMA TakenOfConcat ==
    ASSUME NEW S, NEW s \in Seq(S), NEW t \in Seq(S), NEW n \in 0..Len(s)
    PROVE  SubSeq(s \o t, n + 1, Len(s \o t)) = SubSeq(s, n + 1, Len(s)) \o t
<1> DEFINE u == s \o t
           v == SubSeq(s, n + 1, Len(s))
           w == SubSeq(u, n + 1, Len(u))
<1>1. /\ u \in Seq(S) /\ Len(s) \in Nat /\ Len(t) \in Nat /\ Len(u) = Len(s) + Len(t)
      /\ \A i \in 1..(Len(s) + Len(t)) : u[i] = IF i <= Len(s) THEN s[i] ELSE t[i - Len(s)]
    BY ConcatValues
<1>2. /\ v \in Seq(S) /\ Len(v) = Len(s) - n
      /\ \A i \in 1..(Len(s) - n) : v[i] = s[n + i]
    BY <1>1, SubSeqProperties
<1> HIDE DEF u, v
<1>3. /\ w \in Seq(S) /\ Len(w) = Len(u) - n
      /\ \A i \in 1..(Len(u) - n) : w[i] = u[n + i]
    BY <1>1, SubSeqProperties
<1>4. /\ v \o t \in Seq(S) /\ Len(v \o t) = Len(v) + Len(t)
      /\ \A i \in 1..(Len(v) + Len(t)) :
            (v \o t)[i] = IF i <= Len(v) THEN v[i] ELSE t[i - Len(v)]
    <2>1. v \in Seq(S) /\ t \in Seq(S)
        BY <1>2
    <2> QED BY <2>1, ConcatValues
<1> HIDE DEF w
<1>5. Len(w) = Len(v \o t)
    BY <1>1, <1>2, <1>3, <1>4
<1>6. ASSUME NEW i \in 1..Len(w) PROVE w[i] = (v \o t)[i]
    <2>1. /\ n + i \in 1..(Len(s) + Len(t)) /\ i \in 1..(Len(v) + Len(t))
          /\ w[i] = u[n + i]
        BY <1>1, <1>2, <1>3
    <2>2. CASE i <= Len(v)
        BY <1>1, <1>2, <1>4, <2>1, <2>2
    <2>3. CASE i > Len(v)
        <3>1. (v \o t)[i] = t[i - Len(v)] /\ i - Len(v) = (n + i) - Len(s)
            BY <1>2, <1>4, <2>1, <2>3
        <3>2. u[n + i] = t[(n + i) - Len(s)]
            BY <1>1, <1>2, <2>1, <2>3
        <3> QED BY <2>1, <3>1, <3>2
    <2> QED BY <1>2, <2>1, <2>2, <2>3
<1> QED BY <1>3, <1>4, <1>5, <1>6, SeqEqual DEF u, v, w

(* Whatever the state, the bytes of a turn are the next ones. *)
LEMMA TakenFacts ==
    ASSUME IInv, ec = "none", Take, wire' = wire
    PROVE  /\ Taken \in Nat /\ Taken <= m_bytes_needed /\ Taken <= Len(in)
           /\ m_bytes_needed \in Nat /\ Len(in) \in Nat
           /\ StillNeeded \in Nat /\ m_bytes_needed = Taken + StillNeeded
           /\ Taken = 0 => reading' = reading /\ (m_bytes_needed = 0 \/ in = <<>>)
           /\ in' \in Seq(FrameBytes) /\ wire' \in Seq(FrameBytes)
           /\ reading' = NoByte \/ IsByte(reading')
           /\ InOrder(reading', in' \o wire', partial)
<1>1. /\ m_bytes_needed \in Nat
      /\ in \in Seq(FrameBytes) /\ wire \in Seq(FrameBytes)
      /\ reading = NoByte \/ IsByte(reading)
      /\ InOrder(reading, in \o wire, partial)
    BY DEF IInv, TypeOK
<1>2. Len(in) \in Nat /\ (in = <<>> <=> Len(in) = 0)
    BY <1>1, LenProperties, EmptySeq
<1>3. /\ Taken \in Nat /\ Taken <= m_bytes_needed /\ Taken <= Len(in)
      /\ StillNeeded \in Nat /\ m_bytes_needed = Taken + StillNeeded
      /\ Taken = 0 => m_bytes_needed = 0 \/ in = <<>>
    BY <1>1, <1>2 DEF Taken, StillNeeded
<1>4. in' = SubSeq(in, Taken + 1, Len(in)) /\ reading' = IF Taken = 0 THEN reading ELSE in[Taken]
    BY DEF Take
<1>5. in' \in Seq(FrameBytes)
    BY <1>1, <1>2, <1>3, <1>4, SubSeqProperties
<1>6. CASE Taken = 0
    <2>1. in' = in
        BY <1>1, <1>4, <1>6, SubSeqFull
    <2> QED BY <1>1, <1>2, <1>3, <1>4, <1>6, <2>1
<1>7. CASE Taken # 0
    <2> DEFINE u == in \o wire
    <2>1. /\ u \in Seq(FrameBytes) /\ Len(u) \in Nat /\ Taken \in 1..Len(u)
          /\ u[Taken] = in[Taken]
        <3>1. /\ u \in Seq(FrameBytes) /\ Len(wire) \in Nat /\ Len(u) = Len(in) + Len(wire)
              /\ \A i \in 1..Len(in) : u[i] = in[i]
            BY <1>1, ConcatValues
        <3> QED BY <1>2, <1>3, <1>7, <3>1
    <2>2. SubSeq(u, Taken + 1, Len(u)) = in' \o wire
        <3>1. Taken \in 0..Len(in) /\ in \in Seq(FrameBytes) /\ wire \in Seq(FrameBytes)
            BY <1>1, <1>2, <1>3
        <3> QED BY <1>4, <3>1, TakenOfConcat
    <2> HIDE DEF u
    <2>3. InOrder(u[Taken], SubSeq(u, Taken + 1, Len(u)), partial) /\ IsByte(u[Taken])
        BY <1>1, <2>1, InOrderTaken DEF u
    <2>4. InOrder(reading', in' \o wire', partial) /\ IsByte(reading')
        BY <1>4, <1>7, <2>1, <2>2, <2>3
    <2> QED BY <1>1, <1>2, <1>3, <1>5, <1>7, <2>4
<1> QED BY <1>6, <1>7

(* The values that a turn takes, when they are of one frame. *)
LEMMA ChunkOf ==
    ASSUME in \in Seq(FrameBytes), Taken \in Nat, Taken <= Len(in),
           NEW f \in Frames, NEW p, NEW k \in Nat, k + Taken <= Len(Encoded(f)),
           \A i \in 1..Taken : in[i] = Byte(f, k + i, p)
    PROVE  Chunk = SubSeq(Encoded(f), k + 1, k + Taken)
<1>1. Encoded(f) \in Seq(Bytes(f)) /\ Len(Encoded(f)) \in Nat /\ Len(in) \in Nat
    BY EncodedParts, LenProperties
<1> DEFINE s == SubSeq(in, 1, Taken)
           t == SubSeq(Encoded(f), k + 1, k + Taken)
<1>2. Len(s) = Taken /\ \A i \in 1..Taken : s[i] = in[i]
    BY <1>1, SubSeqProperties
<1>3. /\ t \in Seq(Bytes(f)) /\ Len(t) = Taken
      /\ \A i \in 1..Taken : t[i] = Encoded(f)[k + i]
    BY <1>1, SubSeqProperties
<1> HIDE DEF s, t
<1>4. ASSUME NEW i \in 1..Taken
      PROVE  Value(s[i]) = t[i]
    <2>1. s[i] = Byte(f, k + i, p)
        BY <1>2
    <2> QED BY <1>3, <2>1, ByteParts DEF Value
<1>5. Values(s) = [i \in 1..Taken |-> t[i]]
    BY <1>2, <1>4 DEF Values
<1>6. t = [i \in 1..Taken |-> t[i]]
    BY <1>3
<1> QED BY <1>5, <1>6 DEF Chunk, s, t

(* Within a frame a turn takes the next bytes of the frame. *)
LEMMA TakenInFrame ==
    ASSUME IInv, ec = "none", Take, wire' = wire, IsByte(reading),
           reading.at + m_bytes_needed <= Len(Encoded(reading.of))
    PROVE  /\ reading' = Byte(reading.of, reading.at + Taken, reading.before)
           /\ Chunk = SubSeq(Encoded(reading.of), reading.at + 1, reading.at + Taken)
           /\ got = <<>> /\ Succeeds => ec' = ec /\ got' = <<>>
           /\ \A error : got = <<>> /\ Fails(error) =>
                 ec' = error /\ got' = <<Error(error)>>
<1>1. /\ in \in Seq(FrameBytes) /\ wire \in Seq(FrameBytes)
      /\ InOrder(reading, in \o wire, partial)
    BY DEF IInv
<1>2. /\ Taken \in Nat /\ Taken <= m_bytes_needed /\ Taken <= Len(in)
      /\ m_bytes_needed \in Nat /\ Len(in) \in Nat
      /\ reading' = IF Taken = 0 THEN reading ELSE in[Taken]
    BY TakenFacts DEF Take
<1>3. /\ reading \in FrameBytes /\ reading.of \in Frames
      /\ reading.at \in Nat /\ reading.at > 0 /\ Len(Encoded(reading.of)) \in Nat
    BY EncodedParts, LenProperties DEF IsByte, FrameBytes
<1> DEFINE u == in \o wire
<1>4. /\ u \in Seq(FrameBytes) /\ Len(wire) \in Nat /\ Len(u) = Len(in) + Len(wire)
      /\ \A i \in 1..Len(in) : u[i] = in[i]
    BY <1>1, ConcatValues
<1> HIDE DEF u
<1>5. ASSUME NEW i \in 1..Taken
      PROVE  in[i] = Byte(reading.of, reading.at + i, reading.before)
    <2>1. i \in 1..Len(u) /\ reading.at + i <= Len(Encoded(reading.of)) /\ u[i] = in[i]
        <3>1. i \in Nat /\ i <= Taken /\ i \in 1..Len(in) /\ i \in 1..Len(u)
            BY <1>2, <1>4
        <3>2. \A a, k, t, l \in Nat : \A j \in Nat :
                 j <= t /\ t <= k /\ a + k <= l => a + j <= l
            OBVIOUS
        <3>3. reading.at + i <= Len(Encoded(reading.of))
            BY <1>2, <1>3, <3>1, <3>2
        <3> QED BY <1>4, <3>1, <3>3
    <2>2. InOrder(reading, u, partial)
        BY <1>1 DEF u
    <2> QED BY <1>4, <2>1, <2>2, InOrderFrame
<1>6. reading' = Byte(reading.of, reading.at + Taken, reading.before)
    <2>1. CASE Taken = 0
        BY <1>2, <1>3, <2>1, ByteParts
    <2>2. CASE Taken # 0
        BY <1>2, <1>5, <2>2
    <2> QED BY <2>1, <2>2
<1>7. Chunk = SubSeq(Encoded(reading.of), reading.at + 1, reading.at + Taken)
    <2>1. /\ reading.at \in Nat /\ reading.at + Taken <= Len(Encoded(reading.of))
          /\ \A i \in 1..Taken : in[i] = Byte(reading.of, reading.at + i, reading.before)
        BY <1>2, <1>3, <1>5
    <2> QED BY <1>1, <1>2, <1>3, <2>1, ChunkOf
<1>8. ~\E i \in 1..Taken : in[i].at = 1
    BY <1>2, <1>3, <1>5, ByteParts
<1>9. \A out : got = <<>> /\ Reports(out) => got' = <<>> \o out
    BY <1>8 DEF Reports
<1>10. <<>> \o <<>> = <<>>
    OBVIOUS
<1>11. \A c : <<>> \o <<c>> = <<c>>
    OBVIOUS
<1> QED BY <1>6, <1>7, <1>9, <1>10, <1>11 DEF Succeeds, Fails

LEMMA EncodedLength ==
    ASSUME NEW f \in Frames
    PROVE  /\ Len(Encoded(f)) \in Nat /\ Len(f.extended) \in Nat /\ Len(f.payload) \in Nat
           /\ Len(Encoded(f)) = (2 + Len(f.extended)) + Len(f.payload)
           /\ Len(Encoded(f)) >= 2
<1>1. Len(Encoded(f)) = 2 + Len(f.extended) + Len(f.payload)
    BY EncodedParts
<1>2. Len(f.extended) \in Nat /\ Len(f.payload) \in Nat
    BY FrameType
<1>3. \A l, m, n : m \in Nat /\ n \in Nat /\ l = 2 + m + n =>
                   l \in Nat /\ l = (2 + m) + n /\ l >= 2
    OBVIOUS
<1> QED BY <1>1, <1>2, <1>3, Zenon

LEMMA NoByteIsNone ==
    ASSUME NEW f, NEW i \in Nat \ {0}, NEW p
    PROVE  Byte(f, i, p) # NoByte
BY DEF Byte, NoByte

(* A turn with the basic header takes one or two bytes of one frame. *)
LEMMA BasicTaken ==
    ASSUME IInv, m_state = "HEADER_BASIC", GoesOn, Take, wire' = wire
    PROVE  /\ IsByte(reading') /\ StillNeeded \in {0, 1} /\ reading'.at = 2 - StillNeeded
           /\ m_basic_header \o Chunk = SubSeq(Encoded(reading'.of), 1, reading'.at)
           /\ m_extended_header = <<>> /\ m_bytes_needed \in {1, 2}
           /\ DataHolds(reading'.before)
           /\ Succeeds => ec' = ec /\ got' = <<>>
           /\ \A error : Fails(error) => ec' = error /\ got' = <<Error(error)>>
<1>1. /\ ec = "none" /\ in \in Seq(FrameBytes) /\ wire \in Seq(FrameBytes)
      /\ InOrder(reading, in \o wire, partial)
      /\ reading = NoByte \/ IsByte(reading)
      /\ InStep(reading)
    BY DEF IInv, GoesOn
<1>2. m_bytes_needed \in {1, 2}
    BY <1>1 DEF InStep, BetweenFrames
<1>3. /\ Taken \in 1..m_bytes_needed /\ Taken <= Len(in) /\ Len(in) \in Nat
      /\ StillNeeded \in Nat /\ m_bytes_needed = Taken + StillNeeded
    <2>1. in # <<>>
        BY <1>2 DEF GoesOn
    <2> QED BY <1>1, <1>2, <2>1, TakenFacts
<1>4. reading' = in[Taken]
    BY <1>3 DEF Take
<1>5. CASE m_bytes_needed = 1
    <2>1. /\ reading.at = 1 /\ reading # NoByte /\ IsByte(reading)
          /\ headers = <<SubSeq(Encoded(reading.of), 1, 1), <<>>>>
          /\ DataHolds(reading.before) /\ got = <<>>
        <3>1. /\ reading.at = 1
              /\ headers = <<SubSeq(Encoded(reading.of), 1, 1), <<>>>>
              /\ DataHolds(reading.before) /\ got = <<>>
            BY <1>1, <1>5 DEF InStep, BetweenFrames
        <3> QED BY <1>1, <3>1 DEF NoByte
    <2>2. reading.of \in Frames
        BY <2>1 DEF IsByte, FrameBytes
    <2>3. Taken = 1 /\ StillNeeded = 0
        BY <1>3, <1>5
    <2>4. /\ reading' = Byte(reading.of, 2, reading.before)
          /\ Chunk = SubSeq(Encoded(reading.of), 2, 2)
          /\ Succeeds => ec' = ec /\ got' = <<>>
          /\ \A error : Fails(error) => ec' = error /\ got' = <<Error(error)>>
        <3>1. reading.at + m_bytes_needed <= Len(Encoded(reading.of))
            <4>1. Len(Encoded(reading.of)) \in Nat /\ Len(Encoded(reading.of)) >= 2
                BY <2>2, EncodedLength
            <4> QED BY <1>5, <2>1, <4>1
        <3>2. reading.at + Taken = 2 /\ reading.at + 1 = 2
            BY <2>1, <2>3
        <3> QED BY <1>1, <2>1, <3>1, <3>2, TakenInFrame
    <2>5. m_basic_header \o Chunk = SubSeq(Encoded(reading.of), 1, 2)
        <3>1. Encoded(reading.of) \in Seq(Bytes(reading.of)) /\ Len(Encoded(reading.of)) >= 2
              /\ Len(Encoded(reading.of)) \in Nat
            BY <2>2, EncodedParts, EncodedLength
        <3>2. m_basic_header = SubSeq(Encoded(reading.of), 1, 1)
            BY <2>1 DEF headers
        <3>3. SubSeq(Encoded(reading.of), 1, 1) \o SubSeq(Encoded(reading.of), 1 + 1, 2)
                 = SubSeq(Encoded(reading.of), 1, 2)
            <4> HIDE DEF Encoded
            <4> QED BY <3>1, ConcatAdjacentSubSeq
        <3> QED BY <2>4, <3>2, <3>3
    <2>6. IsByte(reading')
        BY <1>1, <2>4, NoByteIsNone, TakenFacts
    <2> QED BY <1>2, <2>1, <2>3, <2>4, <2>5, <2>6, ByteParts DEF headers
<1>6. CASE m_bytes_needed = 2
    <2>1. /\ Complete(reading) /\ headers = <<<<>>, <<>>>>
          /\ DataHolds(Unfinished(reading))
        BY <1>1, <1>6 DEF InStep, BetweenFrames
    <2> DEFINE u == in \o wire
               f == in[1].of
               p == in[1].before
    <2>2. /\ u \in Seq(FrameBytes) /\ Len(wire) \in Nat /\ Len(u) = Len(in) + Len(wire)
          /\ DOMAIN u = 1..(Len(in) + Len(wire))
          /\ \A i \in 1..Len(in) : u[i] = in[i]
        BY <1>1, ConcatValues
    <2>3. InOrder(reading, u, partial)
        BY <1>1
    <2> HIDE DEF u
    <2>4. IsByte(in[1]) /\ Follows(reading, in[1])
        <3>1. 1 \in DOMAIN u /\ u[1] = in[1]
            BY <1>3, <2>2
        <3> QED BY <2>3, <3>1 DEF InOrder
    <2>5. /\ in[1].at = 1 /\ p = Unfinished(reading) /\ f \in Frames
          /\ Len(Encoded(f)) \in Nat /\ Len(Encoded(f)) >= 2
          /\ Encoded(f) \in Seq(Bytes(f))
        <3>1. in[1].at = 1 /\ p = Unfinished(reading) /\ f \in Frames
            BY <2>1, <2>4 DEF Follows, IsByte, FrameBytes
        <3> HIDE DEF f
        <3>2. Len(Encoded(f)) \in Nat /\ Len(Encoded(f)) >= 2 /\ Encoded(f) \in Seq(Bytes(f))
            BY <3>1, EncodedLength, EncodedParts
        <3> QED BY <3>1, <3>2
    <2>6. ASSUME Taken = 2 PROVE in[2] = Byte(f, 2, p)
        <3>1. 2 \in DOMAIN u /\ u[2] = in[2] /\ u[2 - 1] = in[1]
            BY <1>3, <2>2, <2>6
        <3>2. Follows(in[1], in[2])
            BY <2>3, <3>1 DEF InOrder
        <3>3. ~Complete(in[1])
            <4>1. in[1].at = 1 /\ Len(Encoded(in[1].of)) >= 2 /\ Len(Encoded(in[1].of)) \in Nat
                BY <2>5
            <4>2. \A at, n : at = 1 /\ n >= 2 /\ n \in Nat => ~(at = 0 \/ at = n)
                OBVIOUS
            <4> QED BY <4>1, <4>2, Zenon DEF Complete
        <3> QED BY <2>5, <3>2, <3>3 DEF Follows
    <2>7. in[1] = Byte(f, 1, p)
        BY <2>4, <2>5, ByteParts DEF IsByte
    <2>8. Taken \in {1, 2} /\ StillNeeded = 2 - Taken
        BY <1>3, <1>6
    <2>9. reading' = Byte(f, Taken, p)
        BY <1>4, <2>6, <2>7, <2>8
    <2>10. Chunk = SubSeq(Encoded(f), 1, Taken)
        <3>1. \A i \in 1..Taken : in[i] = Byte(f, 0 + i, p)
            BY <2>6, <2>7, <2>8
        <3>2. 0 + Taken <= Len(Encoded(f)) /\ 0 + Taken = Taken
            BY <2>5, <2>8
        <3>3. Taken \in Nat /\ Taken <= Len(in) /\ f \in Frames /\ 0 \in Nat
            BY <1>3, <2>5
        <3>4. Chunk = SubSeq(Encoded(f), 0 + 1, 0 + Taken)
            <4> HIDE DEF f, p
            <4> QED BY <1>1, <3>1, <3>2, <3>3, ChunkOf
        <3>5. 0 + 1 = 1 /\ 0 + Taken = Taken
            BY <2>8
        <3> QED BY <3>4, <3>5, Zenon
    <2>11. m_basic_header \o Chunk = Chunk
        <3>1. Chunk \in Seq(Bytes(f))
            <4> HIDE DEF f
            <4>1. \A i \in 1..Taken : i \in 1..Len(Encoded(f))
                BY <2>5, <2>8
            <4> QED BY <2>5, <2>8, <2>10, <4>1, SubSeqProperties, ElementOfSeq
        <3> QED BY <2>1, <3>1, ConcatEmptySeq DEF headers
    <2>12. IsByte(reading')
        <3>1. reading'.at # 0
            BY <2>8, <2>9, ByteParts
        <3> QED BY <1>1, <3>1, TakenFacts DEF NoByte
    <2>13. \E i \in 1..Taken : in[i].at = 1
        BY <1>3, <2>5
    <2>14. /\ Succeeds => ec' = ec /\ got' = <<>>
           /\ \A error : Fails(error) => ec' = error /\ got' = <<Error(error)>>
        <3>1. \A out : Reports(out) => got' = <<>> \o out
            BY <2>13 DEF Reports
        <3>2. <<>> \o <<>> = <<>>
            OBVIOUS
        <3>3. \A c : <<>> \o <<c>> = <<c>>
            OBVIOUS
        <3> QED BY <3>1, <3>2, <3>3 DEF Succeeds, Fails
    <2>15. /\ reading'.of = f /\ reading'.at = Taken /\ reading'.before = p
           /\ 2 - StillNeeded = Taken /\ StillNeeded \in {0, 1}
        BY <2>8, <2>9, ByteParts
    <2>16. DataHolds(p) /\ m_extended_header = <<>>
        BY <2>1, <2>5 DEF headers
    <2> QED BY <1>2, <2>10, <2>11, <2>12, <2>14, <2>15, <2>16
<1> QED BY <1>2, <1>5, <1>6

-----------------------------------------------------------------------------
(* Every step keeps the invariant *)

(* What a turn of the loop has to show. *)
LEMMA TurnKeeps ==
    ASSUME IInv, ec = "none", Take, wire' = wire, partial' = partial, TypeOK',
           \/ ec' = "none" /\ InStep(reading)'
           \/ ec' # "none" /\ got' = Meant(reading') /\ m_state' # "READY"
    PROVE  IInv'
<1>1. /\ in' \in Seq(FrameBytes) /\ wire' \in Seq(FrameBytes)
      /\ reading' = NoByte \/ IsByte(reading')
      /\ InOrder(reading', in' \o wire', partial')
    BY TakenFacts
<1> QED BY <1>1 DEF IInv

(* An error that is reported is the flaw of the frame. *)
LEMMA MeantFlaw ==
    ASSUME NEW b, IsByte(b), NEW error, Flaw(b.of, b.before) = error, error # "none"
    PROVE  Meant(b) = <<Error(error)>>
BY DEF Meant, Meaning, IsByte

LEMMA BasicHeaderLegal ==
    ASSUME NEW f \in Frames, NEW p \in Partials
    PROVE  validate_incoming_basic_header(Encoded(f)[1], Encoded(f)[2], p.op = "none")
              = IF HeaderLegal(f, p) THEN "none" ELSE "protocol_error"
<1>1. /\ Encoded(f)[1] = [fin |-> f.fin, rsv |-> f.rsv, op |-> f.op]
      /\ Encoded(f)[2] = Header(f)
    BY EncodedParts
<1>2. /\ f.fin \in BOOLEAN /\ f.rsv \in BOOLEAN /\ f.masked \in BOOLEAN
      /\ f.op \in Opcodes /\ p.op \in {"none", "text", "binary"}
    BY FrameType DEF Partials
<1>3. Header(f).masked = f.masked /\ Header(f).size = f.size
    BY DEF Header
<1> QED BY <1>1, <1>2, <1>3
        DEF validate_incoming_basic_header, HeaderLegal, is_control, Opcodes

LEMMA HeaderBasicKeeps ==
    ASSUME IInv, HeaderBasic
    PROVE  IInv'
<1>1. /\ GoesOn /\ ec = "none" /\ m_state = "HEADER_BASIC" /\ Take
      /\ wire' = wire /\ partial' = partial /\ messages' = messages
      /\ m_extended_header' = m_extended_header
    BY DEF HeaderBasic, GoesOn
<1>2. PICK b : b = reading'
    OBVIOUS
<1>3. /\ IsByte(b) /\ StillNeeded \in {0, 1} /\ b.at = 2 - StillNeeded
      /\ m_basic_header \o Chunk = SubSeq(Encoded(b.of), 1, b.at)
      /\ m_extended_header = <<>>
      /\ DataHolds(b.before)
      /\ Succeeds => ec' = ec /\ got' = <<>>
      /\ \A error : Fails(error) => ec' = error /\ got' = <<Error(error)>>
    BY <1>1, <1>2, BasicTaken
<1>4. /\ b.of \in Frames /\ b.before \in Partials
      /\ Encoded(b.of) \in Seq(Bytes(b.of))
      /\ Len(Encoded(b.of)) \in Nat /\ Len(Encoded(b.of)) >= 2
    <2>1. b.of \in Frames /\ b.before \in Partials
        BY <1>3 DEF IsByte, FrameBytes
    <2> QED BY <2>1, EncodedParts, EncodedLength
<1>5. /\ Len(m_basic_header') = 2 - StillNeeded
      /\ m_basic_header' = SubSeq(Encoded(b.of), 1, b.at)
    <2>1. m_basic_header' = SubSeq(Encoded(b.of), 1, b.at)
        BY <1>3 DEF HeaderBasic
    <2>2. b.at \in 1..Len(Encoded(b.of))
        BY <1>3, <1>4
    <2> QED BY <1>3, <1>4, <2>1, <2>2, SubSeqProperties
<1>6. DataHolds(b.before)' /\ m_data_msg.op = b.before.op
    BY <1>1, <1>3 DEF DataHolds, Holds, messages
<1>7. CASE /\ StillNeeded > 0
           /\ m_bytes_needed' = StillNeeded
           /\ Succeeds /\ UNCHANGED m_state
    <2>1. StillNeeded = 1 /\ b.at = 1 /\ ec' = "none" /\ got' = <<>>
        BY <1>1, <1>3, <1>7
    <2>2. InStep(reading)'
        BY <1>1, <1>2, <1>3, <1>5, <1>6, <1>7, <2>1 DEF InStep, headers
    <2>3. TypeOK'
        BY <1>1, <1>5, <1>7, <2>1 DEF IInv, TypeOK, MessageTypes, messages
    <2> QED BY <1>1, <2>1, <2>2, <2>3, TurnKeeps
<1> DEFINE header == m_basic_header \o Chunk
           error == validate_incoming_basic_header(header[1], header[2], m_data_msg.op = "none")
<1>8. ASSUME StillNeeded = 0
      PROVE  /\ header = SubSeq(Encoded(b.of), 1, 2)
             /\ header[1] = Encoded(b.of)[1] /\ header[2] = Encoded(b.of)[2]
             /\ header[2] = Header(b.of)
             /\ error = IF HeaderLegal(b.of, b.before) THEN "none" ELSE "protocol_error"
    <2>1. b.at = 2 /\ header = SubSeq(Encoded(b.of), 1, 2)
        BY <1>3, <1>8
    <2>2. header[1] = Encoded(b.of)[1] /\ header[2] = Encoded(b.of)[2]
        BY <1>4, <2>1
    <2>3. Encoded(b.of)[2] = Header(b.of)
        BY <1>4, EncodedParts
    <2> HIDE DEF header
    <2> QED BY <1>4, <1>6, <2>1, <2>2, <2>3, BasicHeaderLegal
<1>9. CASE /\ StillNeeded = 0 /\ error # "none"
           /\ m_bytes_needed' = 0
           /\ Fails(error) /\ UNCHANGED m_state
    <2>1. error = "protocol_error" /\ ~HeaderLegal(b.of, b.before)
        BY <1>8, <1>9
    <2> HIDE DEF error
    <2>2. ec' = "protocol_error" /\ got' = <<Error("protocol_error")>>
        BY <1>3, <1>9, <2>1
    <2>3. got' = Meant(b)
        BY <1>3, <2>1, <2>2, MeantFlaw DEF Flaw
    <2>4. TypeOK'
        BY <1>1, <1>5, <1>9 DEF IInv, TypeOK, MessageTypes, messages
    <2> QED BY <1>1, <1>2, <2>2, <2>3, <2>4, <1>9, TurnKeeps
<1>10. CASE /\ StillNeeded = 0 /\ error = "none"
            /\ m_state' = "HEADER_EXTENDED"
            /\ m_bytes_needed' = ExtendedLen(header[2])
            /\ Succeeds
    <2>1. HeaderLegal(b.of, b.before) /\ header[2] = Header(b.of)
        BY <1>8, <1>10
    <2> HIDE DEF error, header
    <2>2. ec' = "none" /\ got' = <<>> /\ b.at = 2
        BY <1>1, <1>3, <1>10
    <2>3. /\ m_bytes_needed' = Len(b.of.extended) /\ m_bytes_needed' \in Nat
          /\ b.of.extended \in Seq(Nat)
        BY <1>4, <1>10, <2>1, FrameType
    <2>4. m_basic_header' = SubSeq(Encoded(b.of), 1, 2) /\ m_basic_header'[2] = Header(b.of)
        <3>1. m_basic_header' = SubSeq(Encoded(b.of), 1, 2)
            BY <1>5, <2>2
        <3>2. Encoded(b.of)[2] = Header(b.of)
            BY <1>4, EncodedParts
        <3> QED BY <1>4, <3>1, <3>2
    <2>5. m_extended_header' = <<>> /\ SubSeq(b.of.extended, 1, b.at - 2) = <<>>
        BY <1>1, <1>3, <2>2, <2>3
    <2>6. b.at + m_bytes_needed' = HeaderRead(b)
        BY <2>2, <2>3 DEF HeaderRead
    <2>7. InStep(reading)'
        BY <1>2, <1>6, <1>10, <2>1, <2>2, <2>4, <2>5, <2>6 DEF InStep, BasicIsRead
    <2>8. TypeOK'
        <3>1. m_bytes_needed' + Len(m_extended_header') = ExtendedLen(m_basic_header'[2])
            BY <1>4, <2>3, <2>4, <2>5, FrameType
        <3> QED BY <1>1, <1>10, <2>3, <3>1 DEF IInv, TypeOK, MessageTypes, messages
    <2> QED BY <1>1, <2>2, <2>7, <2>8, TurnKeeps
<1> QED BY <1>7, <1>9, <1>10 DEF HeaderBasic

(* A part of a sequence that another one holds from k on. *)
LEMMA PartOf ==
    ASSUME NEW S, NEW s \in Seq(S), NEW T, NEW t \in Seq(T), NEW k \in Nat,
           k + Len(t) <= Len(s), \A i \in 1..Len(t) : s[k + i] = t[i],
           NEW m \in Nat, NEW n \in Nat, m <= n, n <= Len(t)
    PROVE  SubSeq(s, (k + m) + 1, k + n) = SubSeq(t, m + 1, n)
<1> DEFINE u == SubSeq(s, (k + m) + 1, k + n)
           v == SubSeq(t, m + 1, n)
<1>1. Len(s) \in Nat /\ Len(t) \in Nat
    BY LenProperties
<1>2. /\ u \in Seq(S) /\ Len(u) = n - m
      /\ \A i \in 1..(n - m) : u[i] = s[(k + m) + i]
    <2>1. k + m \in Nat /\ k + n \in Nat /\ k + m <= k + n /\ k + n <= Len(s)
        BY <1>1
    <2> DEFINE a == k + m
               c == k + n
    <2>2. a \in Nat /\ c \in Nat /\ a <= c /\ c <= Len(s) /\ c - a = n - m
        BY <2>1
    <2> HIDE DEF a, c
    <2>3. /\ SubSeq(s, a + 1, c) \in Seq(S) /\ Len(SubSeq(s, a + 1, c)) = c - a
          /\ \A i \in 1..(c - a) : SubSeq(s, a + 1, c)[i] = s[a + i]
        BY <2>2, PartValues
    <2> QED BY <2>2, <2>3 DEF a, c
<1>3. /\ v \in Seq(T) /\ Len(v) = n - m
      /\ \A i \in 1..(n - m) : v[i] = t[m + i]
    BY PartValues
<1> HIDE DEF u, v
<1>4. ASSUME NEW i \in 1..(n - m) PROVE u[i] = v[i]
    <2>1. m + i \in 1..Len(t) /\ (k + m) + i = k + (m + i)
        BY <1>1
    <2> QED BY <1>2, <1>3, <2>1
<1>5. u = [i \in 1..(n - m) |-> u[i]] /\ v = [i \in 1..(n - m) |-> v[i]]
    BY <1>2, <1>3
<1> QED BY <1>4, <1>5 DEF u, v

LEMMA EncodedPart ==
    ASSUME NEW f \in Frames, NEW m \in Nat, NEW n \in Nat, m <= n
    PROVE  /\ n <= Len(f.extended) =>
                 SubSeq(Encoded(f), (2 + m) + 1, 2 + n) = SubSeq(f.extended, m + 1, n)
           /\ n <= Len(f.payload) =>
                 SubSeq(Encoded(f), ((2 + Len(f.extended)) + m) + 1, (2 + Len(f.extended)) + n)
                    = SubSeq(f.payload, m + 1, n)
<1>1. PICK e \in Nat, y \in Nat :
         /\ e = Len(f.extended) /\ y = Len(f.payload)
         /\ Len(Encoded(f)) = (2 + e) + y
    BY EncodedLength, Zenon
<1>2. /\ Encoded(f) \in Seq(Bytes(f))
      /\ \A i \in 1..e : Encoded(f)[2 + i] = f.extended[i]
      /\ \A i \in 1..y : Encoded(f)[(2 + e) + i] = f.payload[i]
    BY <1>1, EncodedParts
<1>3. f.extended \in Seq(Nat) /\ f.payload \in Seq(ByteClasses)
    BY FrameType
<1>4. \A l : l = (2 + e) + y => 2 + e <= l /\ (2 + e) + y <= l
    OBVIOUS
<1>5. 2 + e <= Len(Encoded(f)) /\ (2 + e) + y <= Len(Encoded(f))
    BY <1>1, <1>4, Zenon
<1>6. n <= e => SubSeq(Encoded(f), (2 + m) + 1, 2 + n) = SubSeq(f.extended, m + 1, n)
    <2>1. /\ 2 \in Nat /\ 2 + Len(f.extended) <= Len(Encoded(f))
          /\ \A i \in 1..Len(f.extended) : Encoded(f)[2 + i] = f.extended[i]
        BY <1>1, <1>2, <1>5, Zenon
    <2> SUFFICES ASSUME n <= Len(f.extended)
                 PROVE  SubSeq(Encoded(f), (2 + m) + 1, 2 + n) = SubSeq(f.extended, m + 1, n)
        BY <1>1, Zenon
    <2> DEFINE k == 2
    <2>2. /\ k \in Nat /\ k + Len(f.extended) <= Len(Encoded(f))
          /\ \A i \in 1..Len(f.extended) : Encoded(f)[k + i] = f.extended[i]
        BY <2>1, Zenon
    <2>3. /\ Encoded(f) \in Seq(Bytes(f)) /\ f.extended \in Seq(Nat)
          /\ m <= n /\ n <= Len(f.extended)
        BY <1>2, <1>3, Zenon
    <2>4. SubSeq(Encoded(f), (k + m) + 1, k + n) = SubSeq(f.extended, m + 1, n)
        <3> HIDE DEF k
        <3> QED BY <2>2, <2>3, PartOf
    <2> QED BY <2>4
<1>7. n <= y => SubSeq(Encoded(f), ((2 + e) + m) + 1, (2 + e) + n) = SubSeq(f.payload, m + 1, n)
    <2> DEFINE k == 2 + e
    <2>1. k \in Nat
        OBVIOUS
    <2>2. /\ k + Len(f.payload) <= Len(Encoded(f))
          /\ \A i \in 1..Len(f.payload) : Encoded(f)[k + i] = f.payload[i]
        BY <1>1, <1>2, <1>5, Zenon
    <2> HIDE DEF k
    <2> SUFFICES ASSUME n <= Len(f.payload)
                 PROVE  SubSeq(Encoded(f), (k + m) + 1, k + n) = SubSeq(f.payload, m + 1, n)
        BY <1>1, Zenon DEF k
    <2> QED BY <1>2, <1>3, <2>1, <2>2, PartOf
<1> QED BY <1>1, <1>6, <1>7

LEMMA ExtendedHeaderMinimal ==
    ASSUME NEW f \in Frames
    PROVE  validate_incoming_extended_header(Header(f), f.extended)
              = IF LengthMinimal(f) THEN "none" ELSE "internal_endpoint_error"
<1>1. /\ get_payload_size(Header(f), f.extended) = Len(f.payload)
      /\ Len(f.payload) \in Nat
    BY FrameType
<1>2. Header(f).size = f.size
    BY DEF Header
<1> QED BY <1>1, <1>2, SizesAssumption
        DEF validate_incoming_extended_header, LengthMinimal

(* While the extended header is read. *)
LEMMA ExtendedTaken ==
    ASSUME IInv, m_state = "HEADER_EXTENDED", GoesOn, Take, wire' = wire
    PROVE  /\ IsByte(reading') /\ reading'.of \in Frames /\ reading'.before \in Partials
           /\ StillNeeded \in Nat /\ reading'.at \in Nat
           /\ reading'.at + StillNeeded = HeaderRead(reading') /\ reading'.at >= 2
           /\ m_basic_header = SubSeq(Encoded(reading'.of), 1, 2)
           /\ m_basic_header[1] = Encoded(reading'.of)[1]
           /\ m_basic_header[2] = Header(reading'.of)
           /\ HeaderLegal(reading'.of, reading'.before)
           /\ m_extended_header \o Chunk = SubSeq(reading'.of.extended, 1, reading'.at - 2)
           /\ DataHolds(reading'.before)
           /\ Succeeds => ec' = ec /\ got' = <<>>
           /\ \A error : Fails(error) => ec' = error /\ got' = <<Error(error)>>
<1> DEFINE f == reading.of
           p == reading.before
           k == reading.at
<1>1. /\ ec = "none" /\ k + m_bytes_needed = HeaderRead(reading)
      /\ BasicIsRead(reading)
      /\ m_extended_header = SubSeq(f.extended, 1, k - 2)
      /\ DataHolds(p) /\ got = <<>>
    BY DEF IInv, InStep, GoesOn, BetweenFrames
<1>2. IsByte(reading) /\ k >= 2
    <2>1. k >= 2
        BY <1>1 DEF BasicIsRead
    <2> QED BY <2>1 DEF NoByte, IInv
<1>3. f \in Frames /\ p \in Partials /\ k \in Nat
    BY <1>2 DEF IsByte, FrameBytes
<1>4. /\ Taken \in Nat /\ StillNeeded \in Nat /\ m_bytes_needed = Taken + StillNeeded
      /\ reading' = NoByte \/ IsByte(reading')
    BY <1>1, TakenFacts
<1> HIDE DEF f, k, p
<1>5. PICK e \in Nat, y \in Nat :
         /\ e = Len(f.extended) /\ y = Len(f.payload)
         /\ Len(Encoded(f)) = (2 + e) + y
    BY <1>3, EncodedLength, Zenon
<1>5a. /\ f.extended \in Seq(Nat) /\ Encoded(f) \in Seq(Bytes(f))
       /\ Encoded(f)[2] = Header(f)
    BY <1>3, FrameType, EncodedParts
<1>6. k + (Taken + StillNeeded) = 2 + e
    BY <1>1, <1>4, <1>5 DEF HeaderRead, f
<1>7. /\ reading' = Byte(f, k + Taken, p)
      /\ Chunk = SubSeq(Encoded(f), k + 1, k + Taken)
      /\ Succeeds => ec' = ec /\ got' = <<>>
      /\ \A error : Fails(error) => ec' = error /\ got' = <<Error(error)>>
    <2>1. \A l : l = (2 + e) + y => k + m_bytes_needed <= l
        BY <1>4, <1>6
    <2>2. k + m_bytes_needed <= Len(Encoded(f))
        BY <1>5, <2>1, Zenon
    <2> QED BY <1>1, <1>2, <2>2, TakenInFrame DEF f, k, p
<1>8. reading'.of = f /\ reading'.at = k + Taken /\ reading'.before = p
    BY <1>7, ByteParts
<1>9. IsByte(reading')
    BY <1>2, <1>3, <1>4, <1>8 DEF NoByte
<1>10. m_extended_header \o Chunk = SubSeq(f.extended, 1, reading'.at - 2)
    <2> DEFINE m == k - 2
               n == (k - 2) + Taken
    <2>1. /\ m \in Nat /\ n \in Nat /\ m <= n /\ n <= e
          /\ (2 + m) + 1 = k + 1 /\ 2 + n = k + Taken /\ n = reading'.at - 2
        BY <1>2, <1>3, <1>4, <1>6, <1>8
    <2>2. m_extended_header = SubSeq(f.extended, 1, m)
        BY <1>1 DEF f
    <2> HIDE DEF m, n
    <2>3. Chunk = SubSeq(f.extended, m + 1, n)
        <3>1. SubSeq(Encoded(f), (2 + m) + 1, 2 + n) = SubSeq(f.extended, m + 1, n)
            BY <1>3, <1>5, <2>1, EncodedPart
        <3> QED BY <1>7, <2>1, <3>1
    <2>4. SubSeq(f.extended, 1, m) \o SubSeq(f.extended, m + 1, n) = SubSeq(f.extended, 1, n)
        <3>1. 1 \in 1..(e + 1) /\ m \in (1 - 1)..e /\ n \in m..e
            BY <2>1
        <3> QED BY <1>5, <1>5a, <3>1, ConcatAdjacentSubSeq
    <2> QED BY <2>1, <2>2, <2>3, <2>4
<1>11. m_basic_header[1] = Encoded(f)[1] /\ m_basic_header[2] = Header(f)
       /\ m_basic_header = SubSeq(Encoded(f), 1, 2)
    <2>1. m_basic_header = SubSeq(Encoded(f), 1, 2) /\ Len(Encoded(f)) >= 2
          /\ Len(Encoded(f)) \in Nat
        BY <1>1, <1>3, EncodedLength DEF BasicIsRead, f
    <2> QED BY <1>5a, <2>1
<1>12. reading'.at + StillNeeded = HeaderRead(reading') /\ reading'.at >= 2
       /\ reading'.at \in Nat
    BY <1>2, <1>3, <1>4, <1>5, <1>6, <1>8 DEF HeaderRead
<1>13. HeaderLegal(f, p)
    BY <1>1 DEF BasicIsRead, f, p
<1> QED BY <1>1, <1>3, <1>4, <1>7, <1>8, <1>9, <1>10, <1>11, <1>12, <1>13

LEMMA EmptyText ==
    ASSUME NEW op
    PROVE  Holds(NewMessage(op), op, <<>>)
<1>1. DOMAIN <<>> = {}
    OBVIOUS
<1> QED BY <1>1 DEF Holds, NewMessage, Accept, ValidSoFar, DueIs, EndsComplete

(* A sum of sizes is a size, and exact as long as it is smaller than SizeWidth. *)
LEMMA AddedValue ==
    ASSUME NEW m \in Nat, NEW n \in Nat
    PROVE  /\ Added(m, n) \in Nat
           /\ m + n < SizeWidth => Added(m, n) = m + n
<1>1. \A k \in Nat, w \in Nat \ {0} : k % w \in Nat /\ (k < w => k % w = k)
    OBVIOUS
<1>2. m + n \in Nat
    OBVIOUS
<1> QED BY <1>1, <1>2, SizesAssumption DEF Added

(* The messages when a frame's payload begins. *)
LEMMA StartedKeeps ==
    ASSUME NEW f \in Frames, NEW p \in Partials, p.op = "none" => p.payload = <<>>,
           HeaderLegal(f, p), m_basic_header[1].op = f.op, DataHolds(p), MessageTypes,
           Started(Len(f.payload))
    PROVE  /\ m_state' = "APPLICATION" /\ m_bytes_needed' = Len(f.payload)
           /\ MessageTypes'
           /\ \/ TooBig(f, p) /\ Fails("message_too_big")
              \/ /\ ~TooBig(f, p) /\ Succeeds
                 /\ m_current_msg' = IF is_control(f.op) THEN "control" ELSE "data"
                 /\ Holds(Current', MessageOp(f, p), Prior(f, p))
                 /\ is_control(f.op) => DataHolds(p)'
<1>1. /\ Len(f.payload) \in Nat
      /\ Prior(f, p) \in Seq(ByteClasses)
      /\ Len(Whole(f, p)) = Len(Prior(f, p)) + Len(f.payload)
    BY FrameType, WholeType
<1>2. Len(<<>>) = 0 /\ <<>> \in Seq(ByteClasses)
    OBVIOUS
<1>3. CASE /\ is_control(f.op)
           /\ m_control_msg' = NewMessage(f.op) /\ m_current_msg' = "control"
           /\ Succeeds /\ UNCHANGED m_data_msg
    <2>1. /\ f.op = "control" /\ ~TooBig(f, p) /\ Prior(f, p) = <<>>
          /\ MessageOp(f, p) = "control"
        BY <1>3 DEF is_control, TooBig, Prior, MessageOp
    <2>2. Holds(Current', MessageOp(f, p), Prior(f, p))
        BY <1>3, <2>1, EmptyText DEF Current
    <2>3. MessageTypes'
        BY <1>2, <1>3, <2>1 DEF MessageTypes, NewMessage
    <2>4. DataHolds(p)'
        BY <1>3 DEF DataHolds
    <2> QED BY <1>3, <2>1, <2>2, <2>3, <2>4 DEF Started
<1>4. ASSUME ~is_control(f.op)
      PROVE  /\ Prior(f, p) = p.payload /\ m_data_msg.payload = p.payload
             /\ m_data_msg.op = p.op
             /\ Total(Len(f.payload)) = Added(Len(Prior(f, p)), Len(f.payload))
    <2>1. Prior(f, p) = p.payload /\ m_data_msg.payload = p.payload /\ m_data_msg.op = p.op
        BY <1>4 DEF Prior, DataHolds, Holds
    <2>2. CASE p.op = "none"
        <3>1. Len(Prior(f, p)) = 0
            BY <1>2, <2>1, <2>2
        <3>2. Len(f.payload) < SizeWidth
            BY FramesAssumption
        <3>3. Added(Len(Prior(f, p)), Len(f.payload)) = Len(f.payload)
            <4>1. PICK y \in Nat : y = Len(f.payload)
                BY <1>1
            <4>2. y < SizeWidth => Added(0, y) = 0 + y
                BY AddedValue
            <4>3. 0 + y = y
                OBVIOUS
            <4> QED BY <3>1, <3>2, <4>1, <4>2, <4>3, Zenon
        <3> QED BY <2>1, <2>2, <3>3 DEF Total
    <2>3. CASE p.op # "none"
        BY <2>1, <2>3 DEF Total
    <2> QED BY <2>1, <2>2, <2>3
<1>5. CASE /\ ~is_control(f.op)
           /\ Total(Len(f.payload)) > MaxMessageSize
           /\ Fails("message_too_big") /\ UNCHANGED messages
    <2>1. TooBig(f, p)
        BY <1>4, <1>5 DEF TooBig
    <2>2. MessageTypes'
        BY <1>5 DEF MessageTypes, messages
    <2> QED BY <1>5, <2>1, <2>2 DEF Started
<1>6. CASE /\ ~is_control(f.op)
           /\ Total(Len(f.payload)) <= MaxMessageSize
           /\ m_data_msg' = IF m_data_msg.op = "none" THEN NewMessage(f.op)
                            ELSE m_data_msg
           /\ m_current_msg' = "data"
           /\ Succeeds /\ UNCHANGED m_control_msg
    <2>1. ~TooBig(f, p)
        <3>1. Added(Len(Prior(f, p)), Len(f.payload)) \in Nat
            BY <1>1, AddedValue, LenProperties
        <3>2. \A m, n \in Nat : m <= n => ~(m > n)
            OBVIOUS
        <3>3. ~(Added(Len(Prior(f, p)), Len(f.payload)) > MaxMessageSize)
            BY <1>4, <1>6, <3>1, <3>2, SizesAssumption, Zenon
        <3> QED BY <3>3 DEF TooBig
    <2>2. CASE p.op = "none"
        <3>1. m_data_msg' = NewMessage(f.op) /\ Prior(f, p) = <<>> /\ f.op \in {"text", "binary"}
            <4>1. f.op \in Opcodes
                BY FrameType
            <4> QED BY <1>4, <1>6, <2>2, <4>1 DEF HeaderLegal, Opcodes, is_control
        <3>2. MessageOp(f, p) = f.op
            BY <3>1 DEF MessageOp
        <3>3. Holds(Current', MessageOp(f, p), Prior(f, p))
            BY <1>6, <3>1, <3>2, EmptyText DEF Current
        <3>4. MessageTypes'
            BY <1>2, <1>6, <3>1 DEF MessageTypes, NewMessage, Accept, Reject
        <3> QED BY <1>6, <2>1, <3>3, <3>4 DEF Started
    <2>3. CASE p.op # "none"
        <3>1. m_data_msg' = m_data_msg /\ f.op = "continuation"
            <4>1. f.op \in Opcodes
                BY FrameType
            <4> QED BY <1>4, <1>6, <2>3, <4>1 DEF HeaderLegal, Opcodes, is_control
        <3>2. MessageOp(f, p) = p.op
            BY <3>1 DEF MessageOp
        <3>3. Holds(Current', MessageOp(f, p), Prior(f, p))
            BY <1>4, <1>6, <3>1, <3>2 DEF Current, DataHolds
        <3>4. MessageTypes'
            BY <1>6, <3>1 DEF MessageTypes
        <3> QED BY <1>6, <2>1, <3>3, <3>4 DEF Started
    <2> QED BY <2>2, <2>3
<1> QED BY <1>3, <1>5, <1>6 DEF Started

LEMMA HeaderExtendedKeeps ==
    ASSUME IInv, HeaderExtended
    PROVE  IInv'
<1>1. /\ GoesOn /\ ec = "none" /\ m_state = "HEADER_EXTENDED" /\ Take
      /\ wire' = wire /\ partial' = partial /\ m_basic_header' = m_basic_header
    BY DEF HeaderExtended, GoesOn
<1>2. PICK b : b = reading'
    OBVIOUS
<1>3. /\ IsByte(b) /\ b.of \in Frames /\ b.before \in Partials
      /\ StillNeeded \in Nat /\ b.at \in Nat
      /\ b.at + StillNeeded = HeaderRead(b) /\ b.at >= 2
      /\ m_basic_header = SubSeq(Encoded(b.of), 1, 2)
      /\ m_basic_header[1] = Encoded(b.of)[1]
      /\ m_basic_header[2] = Header(b.of)
      /\ HeaderLegal(b.of, b.before)
      /\ m_extended_header \o Chunk = SubSeq(b.of.extended, 1, b.at - 2)
      /\ DataHolds(b.before)
      /\ Succeeds => ec' = ec /\ got' = <<>>
      /\ \A error : Fails(error) => ec' = error /\ got' = <<Error(error)>>
    BY <1>1, <1>2, ExtendedTaken
<1>4. PICK e \in Nat : e = Len(b.of.extended) /\ e = ExtendedLen(Header(b.of))
                       /\ HeaderRead(b) = 2 + e /\ b.of.extended \in Seq(Nat)
    BY <1>3, FrameType DEF HeaderRead
<1>5. m_extended_header' = SubSeq(b.of.extended, 1, b.at - 2)
    BY <1>3 DEF HeaderExtended
<1>6. BasicIsRead(reading)' /\ MessageTypes
    BY <1>1, <1>2, <1>3 DEF BasicIsRead, IInv, TypeOK
<1> DEFINE header == m_extended_header \o Chunk
           error == validate_incoming_extended_header(m_basic_header[2], header)
<1>7. CASE /\ StillNeeded > 0
           /\ m_bytes_needed' = StillNeeded
           /\ Succeeds /\ UNCHANGED <<m_state, messages>>
    <2>1. ec' = "none" /\ got' = <<>>
        BY <1>1, <1>3, <1>7
    <2>2. DataHolds(b.before)'
        BY <1>3, <1>7 DEF DataHolds, messages
    <2>3. InStep(reading)'
        <3>1. b.at + m_bytes_needed' = HeaderRead(b)
            BY <1>3, <1>7
        <3> QED BY <1>1, <1>2, <1>5, <1>6, <1>7, <2>1, <2>2, <3>1 DEF InStep
    <2>4. TypeOK'
        <3>1. Len(m_extended_header') = b.at - 2
            <4>1. b.at - 2 \in 0..e
                BY <1>3, <1>4
            <4>2. \A i \in 1..(b.at - 2) : i \in 1..e
                BY <4>1
            <4> QED BY <1>4, <1>5, <4>1, <4>2, SubSeqProperties
        <3>2. m_bytes_needed' + Len(m_extended_header') = ExtendedLen(m_basic_header'[2])
            <4>1. StillNeeded + (b.at - 2) = e
                BY <1>3, <1>4
            <4> QED BY <1>1, <1>3, <1>4, <1>7, <3>1, <4>1, Zenon
        <3>3. MessageTypes'
            BY <1>6, <1>7 DEF MessageTypes, messages
        <3> QED BY <1>1, <1>3, <1>7, <3>2, <3>3 DEF TypeOK
    <2> QED BY <1>1, <2>1, <2>3, <2>4, TurnKeeps
<1>8. ASSUME StillNeeded = 0
      PROVE  /\ b.at = 2 + e /\ header = b.of.extended
             /\ error = IF LengthMinimal(b.of) THEN "none" ELSE "internal_endpoint_error"
             /\ get_payload_size(m_basic_header[2], header) = Len(b.of.payload)
    <2>1. b.at = 2 + e /\ b.at - 2 = e
        BY <1>3, <1>4, <1>8
    <2>2. header = b.of.extended
        BY <1>3, <1>4, <2>1, SubSeqFull
    <2> HIDE DEF header
    <2> QED BY <1>3, <2>1, <2>2, ExtendedHeaderMinimal, FrameType
<1>9. CASE /\ StillNeeded = 0 /\ error # "none"
           /\ m_bytes_needed' = 0
           /\ Fails(error) /\ UNCHANGED <<m_state, messages>>
    <2>1. error = "internal_endpoint_error" /\ ~LengthMinimal(b.of)
        BY <1>8, <1>9
    <2>2. header = b.of.extended /\ m_extended_header' = header
        BY <1>8, <1>9 DEF HeaderExtended
    <2> HIDE DEF error, header
    <2>3. ec' = "internal_endpoint_error" /\ got' = <<Error("internal_endpoint_error")>>
        BY <1>3, <1>9, <2>1
    <2>4. got' = Meant(b)
        BY <1>3, <2>1, <2>3, MeantFlaw DEF Flaw
    <2>5. TypeOK'
        <3>1. 0 + Len(m_extended_header') = ExtendedLen(m_basic_header'[2])
            <4>1. 0 + e = e
                BY <1>4
            <4> QED BY <1>1, <1>3, <1>4, <2>2, <4>1, Zenon
        <3>2. MessageTypes'
            BY <1>6, <1>9 DEF MessageTypes, messages
        <3> QED BY <1>1, <1>9, <3>1, <3>2 DEF TypeOK
    <2> QED BY <1>1, <1>2, <2>3, <2>4, <2>5, <1>9, TurnKeeps
<1>10. CASE /\ StillNeeded = 0 /\ error = "none"
            /\ Started(get_payload_size(m_basic_header[2], header))
    <2>1. /\ LengthMinimal(b.of) /\ b.at = 2 + e
          /\ get_payload_size(m_basic_header[2], header) = Len(b.of.payload)
        BY <1>8, <1>10
    <2> HIDE DEF error, header
    <2>2. Started(Len(b.of.payload))
        BY <1>10, <2>1
    <2>3. m_basic_header[1].op = b.of.op
        <3>1. Encoded(b.of)[1] = [fin |-> b.of.fin, rsv |-> b.of.rsv, op |-> b.of.op]
            BY <1>3, EncodedParts
        <3> QED BY <1>3, <3>1
    <2>4. b.before.op = "none" => b.before.payload = <<>>
        BY <1>3 DEF IsByte
    <2>5. /\ m_state' = "APPLICATION" /\ m_bytes_needed' = Len(b.of.payload)
          /\ MessageTypes'
          /\ \/ TooBig(b.of, b.before) /\ Fails("message_too_big")
             \/ /\ ~TooBig(b.of, b.before) /\ Succeeds
                /\ m_current_msg' = IF is_control(b.of.op) THEN "control" ELSE "data"
                /\ Holds(Current', MessageOp(b.of, b.before), Prior(b.of, b.before))
                /\ is_control(b.of.op) => DataHolds(b.before)'
        BY <1>3, <1>6, <2>2, <2>3, <2>4, StartedKeeps
    <2>6. TypeOK'
        BY <1>3, <2>5, FrameType DEF TypeOK
    <2>7. CASE TooBig(b.of, b.before) /\ Fails("message_too_big")
        <3>1. ec' = "message_too_big" /\ got' = <<Error("message_too_big")>>
            BY <1>3, <2>7
        <3>2. got' = Meant(b)
            BY <1>3, <2>1, <2>7, <3>1, MeantFlaw DEF Flaw
        <3> QED BY <1>1, <1>2, <2>6, <3>1, <3>2, <2>5, TurnKeeps
    <2>8. CASE ~TooBig(b.of, b.before) /\ Succeeds
        <3>1. ec' = "none" /\ got' = <<>>
            BY <1>1, <1>3, <2>8
        <3>2. b.at = HeaderRead(b) /\ b.at >= HeaderRead(b) /\ b.at - HeaderRead(b) = 0
            BY <1>4, <2>1
        <3>3. Prior(b.of, b.before) \o SubSeq(b.of.payload, 1, 0) = Prior(b.of, b.before)
            <4>1. b.of.payload \in Seq(ByteClasses) /\ Prior(b.of, b.before) \in Seq(ByteClasses)
                BY <1>3, FrameType, WholeType
            <4>2. SubSeq(b.of.payload, 1, 0) = <<>>
                BY <4>1
            <4> QED BY <4>1, <4>2, ConcatEmptySeq
        <3>4. CurrentHolds(b, SubSeq(b.of.payload, 1, b.at - HeaderRead(b)))'
            BY <2>5, <2>8, <3>2, <3>3 DEF CurrentHolds
        <3>5. b.at + m_bytes_needed' = Len(Encoded(b.of))
            BY <1>3, <1>4, <2>1, <2>5, EncodedLength, Zenon
        <3>6. InStep(reading)'
            BY <1>2, <1>6, <2>1, <2>5, <2>8, <3>1, <3>2, <3>4, <3>5 DEF InStep
        <3> QED BY <1>1, <2>6, <3>1, <3>6, TurnKeeps
    <2> QED BY <2>5, <2>7, <2>8
<1> QED BY <1>7, <1>9, <1>10 DEF HeaderExtended

(* A message under assembly, of either kind. *)
Messages ==
    [op : {"none", "text", "binary", "control"}, payload : Seq(ByteClasses),
     validator : Reject..3]

(* Appended bytes: what the message holds then, or why they are rejected. *)
LEMMA ProcessedBytes ==
    ASSUME NEW message \in Messages,
           NEW op, NEW s \in Seq(ByteClasses), Holds(message, op, s),
           NEW bytes \in Seq(ByteClasses),
           NEW n, n = process_payload_bytes(message, bytes)
    PROVE  /\ n \in Messages
           /\ n.op = op /\ n.payload = s \o bytes
           /\ op # "text" => n.validator = message.validator
           /\ n.validator # Reject => Holds(n, op, s \o bytes)
           /\ n.validator = Reject => op = "text" /\ ~ValidSoFar(s \o bytes)
<1>1. /\ message.op = op /\ message.payload = s
      /\ message.validator \in 0..3 /\ Reject = -1
      /\ op = "text" => Checked(s, message.validator)
    BY DEF Holds, Checked, Reject, Messages
<1>2. s \o bytes \in Seq(ByteClasses)
    BY ConcatProperties
<1>3. /\ n = [message EXCEPT
                !.payload = s \o bytes,
                !.validator = IF op = "text" THEN decoded(message.validator, bytes)
                              ELSE message.validator]
    BY <1>1 DEF process_payload_bytes
<1>4. CASE op = "text"
    <2>1. /\ n.op = op /\ n.payload = s \o bytes
          /\ n.validator = decoded(message.validator, bytes)
          /\ n = [op |-> n.op, payload |-> n.payload, validator |-> n.validator]
        BY <1>1, <1>3, <1>4 DEF Messages
    <2>2. CASE n.validator # Reject /\ Checked(s \o bytes, n.validator)
        <3>1. n.validator \in 0..3 /\ n.validator \in Reject..3 /\ n.validator >= 0
            BY <2>2 DEF Checked, Reject
        <3>2. Holds(n, op, s \o bytes)
            BY <2>1, <2>2, <3>1 DEF Holds, Checked
        <3> QED BY <1>2, <1>4, <2>1, <2>2, <3>1, <3>2 DEF Messages
    <2>3. CASE n.validator = Reject /\ ~ValidSoFar(s \o bytes)
        <3>1. n.validator \in Reject..3
            BY <2>3 DEF Reject
        <3> QED BY <1>2, <1>4, <2>1, <2>3, <3>1 DEF Messages
    <2> QED BY <1>1, <1>4, <2>1, <2>2, <2>3, DecodedText
<1>5. CASE op # "text"
    <2>1. /\ n.op = op /\ n.payload = s \o bytes
          /\ n.validator = message.validator
          /\ n = [op |-> n.op, payload |-> n.payload, validator |-> n.validator]
        BY <1>1, <1>3, <1>5 DEF Messages
    <2>2. n.validator # Reject /\ n.validator \in Reject..3 /\ n.validator >= 0
        BY <1>1, <2>1
    <2>3. Holds(n, op, s \o bytes)
        BY <1>5, <2>1, <2>2 DEF Holds
    <2> QED BY <1>1, <1>2, <1>5, <2>1, <2>2, <2>3 DEF Messages
<1> QED BY <1>4, <1>5

(* While the payload is read: s is what the message has of it. *)
LEMMA PayloadTaken ==
    ASSUME IInv, m_state = "APPLICATION", GoesOn, Take, wire' = wire
    PROVE  /\ IsByte(reading') /\ reading'.of \in Frames /\ reading'.before \in Partials
           /\ StillNeeded \in Nat /\ reading'.at \in Nat /\ reading'.at >= 2
           /\ reading'.at + StillNeeded = Len(Encoded(reading'.of))
           /\ reading'.at >= HeaderRead(reading')
           /\ m_basic_header = SubSeq(Encoded(reading'.of), 1, 2)
           /\ m_basic_header[1] = Encoded(reading'.of)[1]
           /\ HeaderLegal(reading'.of, reading'.before)
           /\ LengthMinimal(reading'.of) /\ ~TooBig(reading'.of, reading'.before)
           /\ m_current_msg = IF is_control(reading'.of.op) THEN "control" ELSE "data"
           /\ is_control(reading'.of.op) => DataHolds(reading'.before)
           /\ Chunk \in Seq(ByteClasses)
           /\ \E s \in Seq(ByteClasses) :
                 /\ Holds(Current, MessageOp(reading'.of, reading'.before), s)
                 /\ s \o Chunk = Prior(reading'.of, reading'.before)
                       \o SubSeq(reading'.of.payload, 1, reading'.at - HeaderRead(reading'))
           /\ Succeeds => ec' = ec /\ got' = <<>>
           /\ \A error : Fails(error) => ec' = error /\ got' = <<Error(error)>>
<1> DEFINE f == reading.of
           p == reading.before
           k == reading.at
<1>1. /\ ec = "none" /\ k + m_bytes_needed = Len(Encoded(f))
      /\ k >= HeaderRead(reading)
      /\ BasicIsRead(reading) /\ LengthMinimal(f) /\ ~TooBig(f, p)
      /\ CurrentHolds(reading, SubSeq(f.payload, 1, k - HeaderRead(reading)))
      /\ got = <<>>
    BY DEF IInv, InStep, GoesOn, BetweenFrames
<1>2. IsByte(reading) /\ k >= 2
    <2>1. k >= 2
        BY <1>1 DEF BasicIsRead
    <2> QED BY <2>1 DEF NoByte, IInv
<1>3. f \in Frames /\ p \in Partials /\ k \in Nat
    BY <1>2 DEF IsByte, FrameBytes
<1>4. /\ Taken \in Nat /\ StillNeeded \in Nat /\ m_bytes_needed = Taken + StillNeeded
      /\ reading' = NoByte \/ IsByte(reading')
    BY <1>1, TakenFacts
<1> HIDE DEF f, k, p
<1>5. PICK e \in Nat, y \in Nat :
         /\ e = Len(f.extended) /\ y = Len(f.payload)
         /\ Len(Encoded(f)) = (2 + e) + y
    BY <1>3, EncodedLength, Zenon
<1>6. /\ f.payload \in Seq(ByteClasses) /\ Prior(f, p) \in Seq(ByteClasses)
      /\ Encoded(f) \in Seq(Bytes(f)) /\ Len(Encoded(f)) \in Nat /\ Len(Encoded(f)) >= 2
    BY <1>3, FrameType, EncodedParts, WholeType, EncodedLength
<1>7. k + (Taken + StillNeeded) = (2 + e) + y /\ k >= 2 + e
    BY <1>1, <1>4, <1>5 DEF HeaderRead, f
<1>8. /\ reading' = Byte(f, k + Taken, p)
      /\ Chunk = SubSeq(Encoded(f), k + 1, k + Taken)
      /\ Succeeds => ec' = ec /\ got' = <<>>
      /\ \A error : Fails(error) => ec' = error /\ got' = <<Error(error)>>
    <2>1. k + m_bytes_needed <= Len(Encoded(f))
        BY <1>1, <1>6
    <2> QED BY <1>1, <1>2, <2>1, TakenInFrame DEF f, k, p
<1>9. reading'.of = f /\ reading'.at = k + Taken /\ reading'.before = p
    BY <1>8, ByteParts
<1>10. IsByte(reading')
    BY <1>2, <1>3, <1>4, <1>9 DEF NoByte
<1>11. HeaderRead(reading) = 2 + e /\ HeaderRead(reading') = 2 + e
    BY <1>5, <1>9 DEF HeaderRead, f
<1> DEFINE m == k - (2 + e)
           n == m + Taken
           s == Prior(f, p) \o SubSeq(f.payload, 1, m)
<1>12. /\ m \in Nat /\ n \in Nat /\ m <= n /\ n <= y
       /\ ((2 + e) + m) + 1 = k + 1 /\ (2 + e) + n = k + Taken
       /\ n = reading'.at - HeaderRead(reading') /\ m = k - HeaderRead(reading)
    BY <1>3, <1>4, <1>7, <1>9, <1>11
<1> HIDE DEF m, n
<1>13. Chunk = SubSeq(f.payload, m + 1, n)
    <2>1. SubSeq(Encoded(f), ((2 + e) + m) + 1, (2 + e) + n) = SubSeq(f.payload, m + 1, n)
        BY <1>3, <1>5, <1>12, EncodedPart
    <2> QED BY <1>8, <1>12, <2>1
<1>14. /\ SubSeq(f.payload, 1, m) \in Seq(ByteClasses)
       /\ SubSeq(f.payload, m + 1, n) \in Seq(ByteClasses)
       /\ SubSeq(f.payload, 1, m) \o SubSeq(f.payload, m + 1, n) = SubSeq(f.payload, 1, n)
    <2>1. 1 \in 1..(y + 1) /\ m \in (1 - 1)..y /\ n \in m..y
        BY <1>12
    <2>2. SubSeq(f.payload, 1, m) \o SubSeq(f.payload, m + 1, n) = SubSeq(f.payload, 1, n)
        BY <1>5, <1>6, <2>1, ConcatAdjacentSubSeq
    <2>3. \A i : (i \in 1..m \/ i \in (m + 1)..n) => i \in 1..y
        BY <2>1
    <2>4. /\ SubSeq(f.payload, 1, m) \in Seq(ByteClasses)
          /\ SubSeq(f.payload, m + 1, n) \in Seq(ByteClasses)
        BY <1>5, <1>6, <1>12, <2>3, SubSeqProperties, ElementOfSeq
    <2> QED BY <2>2, <2>4
<1>15. s \in Seq(ByteClasses) /\ s \o Chunk = Prior(f, p) \o SubSeq(f.payload, 1, n)
    <2>1. s \in Seq(ByteClasses)
        BY <1>6, <1>14, ConcatProperties
    <2>2. s \o SubSeq(f.payload, m + 1, n)
             = Prior(f, p) \o (SubSeq(f.payload, 1, m) \o SubSeq(f.payload, m + 1, n))
        <3>1. \A a, b, c \in Seq(ByteClasses) : (a \o b) \o c = a \o (b \o c)
            BY ConcatAssociative
        <3> QED BY <1>6, <1>14, <3>1, Zenon
    <2> QED BY <1>13, <1>14, <2>1, <2>2
<1>16. /\ m_current_msg = IF is_control(f.op) THEN "control" ELSE "data"
       /\ is_control(f.op) => DataHolds(p)
       /\ Holds(Current, MessageOp(f, p), s)
    BY <1>1, <1>12 DEF CurrentHolds, f, p, k
<1>17. /\ m_basic_header = SubSeq(Encoded(f), 1, 2)
       /\ m_basic_header[1] = Encoded(f)[1] /\ HeaderLegal(f, p)
    <2>1. m_basic_header = SubSeq(Encoded(f), 1, 2) /\ HeaderLegal(f, p)
        BY <1>1 DEF BasicIsRead, f, p
    <2> QED BY <1>6, <2>1
<1>18. /\ k + Taken \in Nat /\ k + Taken >= 2 + e /\ k + Taken >= 2
       /\ (k + Taken) + StillNeeded = Len(Encoded(f))
    <2>1. /\ k + Taken \in Nat /\ k + Taken >= 2 + e /\ k + Taken >= 2
          /\ (k + Taken) + StillNeeded = (2 + e) + y
        BY <1>2, <1>3, <1>4, <1>7
    <2> QED BY <1>5, <2>1, Zenon
<1> HIDE DEF s
<1>19. Chunk \in Seq(ByteClasses)
    BY <1>13, <1>14
<1>20. LengthMinimal(f) /\ ~TooBig(f, p)
    BY <1>1
<1> QED BY <1>3, <1>4, <1>8, <1>9, <1>10, <1>11, <1>12, <1>15, <1>16, <1>17, <1>18, <1>19, <1>20

(* The message under assembly has as many bytes as were processed of it. *)
LEMMA PayloadPart ==
    ASSUME NEW f \in Frames, NEW p \in Partials, NEW j \in Nat, j <= Len(f.payload)
    PROVE  LET w == Prior(f, p) \o SubSeq(f.payload, 1, j)
           IN  w \in Seq(ByteClasses) /\ Len(w) = Len(Prior(f, p)) + j
<1> DEFINE u == SubSeq(f.payload, 1, j)
<1>1. /\ f.payload \in Seq(ByteClasses) /\ Prior(f, p) \in Seq(ByteClasses)
      /\ Len(f.payload) \in Nat
    BY FrameType, WholeType, LenProperties
<1>2. u \in Seq(ByteClasses) /\ Len(u) = j
    <2>1. \A i \in 1..j : i \in 1..Len(f.payload)
        BY <1>1
    <2> QED BY <1>1, <2>1, SubSeqProperties, ElementOfSeq
<1> HIDE DEF u
<1>3. Prior(f, p) \o u \in Seq(ByteClasses) /\ Len(Prior(f, p) \o u) = Len(Prior(f, p)) + j
    BY <1>1, <1>2, ConcatProperties
<1> QED BY <1>3 DEF u

(* The message of the frame takes the place of the current one. *)
LEMMA SetMessage ==
    ASSUME NEW f \in Frames, NEW p \in Partials, HeaderLegal(f, p), MessageTypes,
           m_current_msg = IF is_control(f.op) THEN "control" ELSE "data",
           NEW n \in Messages,
           n.op = MessageOp(f, p), n.op # "text" => n.validator = Current.validator,
           SetCurrent(n)
    PROVE  /\ MessageTypes' /\ Current' = n
           /\ m_current_msg' = IF is_control(f.op) THEN "control" ELSE "data"
           /\ is_control(f.op) => m_data_msg' = m_data_msg
           /\ ~is_control(f.op) => m_data_msg' = n
<1>1. CASE is_control(f.op)
    <2>1. /\ m_control_msg' = n /\ m_data_msg' = m_data_msg
          /\ m_current_msg' = m_current_msg /\ m_current_msg = "control"
        BY <1>1 DEF SetCurrent
    <2>2. n.op = "control" /\ n.validator = m_control_msg.validator
        BY <1>1, <2>1 DEF is_control, MessageOp, Current
    <2>3. n.validator = Accept
        BY <2>2 DEF MessageTypes
    <2> QED BY <1>1, <2>1, <2>2, <2>3 DEF Messages, MessageTypes, Current
<1>2. CASE ~is_control(f.op)
    <2>1. /\ m_data_msg' = n /\ m_control_msg' = m_control_msg
          /\ m_current_msg' = m_current_msg /\ m_current_msg = "data"
        BY <1>2 DEF SetCurrent
    <2>2. n.op \in {"text", "binary"}
        BY <1>2, MessageOpType
    <2> QED BY <1>2, <2>1, <2>2 DEF Messages, MessageTypes, Current
<1> QED BY <1>1, <1>2

LEMMA CurrentType ==
    ASSUME MessageTypes
    PROVE  Current \in Messages
BY DEF Messages, MessageTypes, Current, Accept, Reject

(* The whole payload was processed: the message has the flaw of the frame. *)
LEMMA WholeFlaw ==
    ASSUME NEW f \in Frames, NEW p \in Partials, HeaderLegal(f, p), LengthMinimal(f),
           ~TooBig(f, p), NEW n, Holds(n, MessageOp(f, p), Whole(f, p)),
           n.validator \in Nat
    PROVE  Flaw(f, p) = IF f.op = "text" /\ f.fin /\ n.validator # Accept
                        THEN "invalid_payload" ELSE "none"
<1>1. MessageOp(f, p) = "text" =>
         ValidSoFar(Whole(f, p)) /\ DueIs(Whole(f, p), n.validator)
    BY DEF Holds
<1>2. f.op = "text" => MessageOp(f, p) = "text"
    BY DEF MessageOp
<1>3. ASSUME MessageOp(f, p) = "text", n.validator # 0
      PROVE  ~EndsComplete(Whole(f, p))
    <2>1. PICK i \in DOMAIN Whole(f, p) :
             /\ Whole(f, p)[i] \in DOMAIN Lead
             /\ i + Lead[Whole(f, p)[i]] = Len(Whole(f, p)) + n.validator
        BY <1>1, <1>3 DEF DueIs
    <2>2. Len(Whole(f, p)) \in Nat
        BY WholeType, LenProperties
    <2>3. ~(i + Lead[Whole(f, p)[i]] <= Len(Whole(f, p)))
        BY <1>3, <2>1, <2>2
    <2> QED BY <2>1, <2>3 DEF EndsComplete
<1>4. MessageOp(f, p) = "text" /\ n.validator = 0 => EndsComplete(Whole(f, p))
    BY <1>1 DEF DueIs
<1> QED BY <1>1, <1>2, <1>3, <1>4 DEF Flaw, TextFlawed, Accept

LEMMA ApplicationKeeps ==
    ASSUME IInv, Application
    PROVE  IInv'
<1> DEFINE message == process_payload_bytes(Current, Chunk)
<1>1. /\ GoesOn /\ ec = "none" /\ m_state = "APPLICATION" /\ Take
      /\ wire' = wire /\ partial' = partial /\ SetCurrent(message)
      /\ MessageTypes /\ m_bytes_needed \in Nat
    BY DEF Application, GoesOn, IInv, TypeOK
<1>2. PICK b : b = reading'
    OBVIOUS
<1> DEFINE f == b.of
           p == b.before
           j == b.at - HeaderRead(b)
           w == Prior(f, p) \o SubSeq(f.payload, 1, j)
<1>3. /\ IsByte(b) /\ f \in Frames /\ p \in Partials
      /\ StillNeeded \in Nat /\ b.at \in Nat /\ b.at >= 2
      /\ b.at + StillNeeded = Len(Encoded(f)) /\ b.at >= HeaderRead(b)
      /\ m_basic_header = SubSeq(Encoded(f), 1, 2)
      /\ m_basic_header[1] = Encoded(f)[1]
      /\ HeaderLegal(f, p) /\ LengthMinimal(f) /\ ~TooBig(f, p)
      /\ m_current_msg = IF is_control(f.op) THEN "control" ELSE "data"
      /\ is_control(f.op) => DataHolds(p)
      /\ Chunk \in Seq(ByteClasses)
      /\ Succeeds => ec' = ec /\ got' = <<>>
      /\ \A error : Fails(error) => ec' = error /\ got' = <<Error(error)>>
    BY <1>1, <1>2, PayloadTaken
<1>4. PICK s \in Seq(ByteClasses) :
         Holds(Current, MessageOp(f, p), s) /\ s \o Chunk = w
    BY <1>1, <1>2, PayloadTaken
<1>5. /\ message \in Messages
      /\ message.op = MessageOp(f, p) /\ message.payload = w
      /\ message.op # "text" => message.validator = Current.validator
      /\ message.validator # Reject => Holds(message, MessageOp(f, p), w)
      /\ message.validator = Reject => MessageOp(f, p) = "text" /\ ~ValidSoFar(w)
    <2> HIDE DEF w, message, f, p
    <2>1. Current \in Messages
        BY <1>1, CurrentType
    <2>2. message = process_payload_bytes(Current, Chunk)
        BY DEF message
    <2>3. PICK op : op = MessageOp(f, p)
        OBVIOUS
    <2>4. Holds(Current, op, s) /\ Chunk \in Seq(ByteClasses)
        BY <1>3, <1>4, <2>3
    <2>5. /\ message \in Messages
          /\ message.op = op /\ message.payload = s \o Chunk
          /\ op # "text" => message.validator = Current.validator
          /\ message.validator # Reject => Holds(message, op, s \o Chunk)
          /\ message.validator = Reject => op = "text" /\ ~ValidSoFar(s \o Chunk)
        BY <2>1, <2>2, <2>4, ProcessedBytes
    <2> QED BY <1>4, <2>3, <2>5, Zenon
<1>6. PICK e \in Nat, y \in Nat :
         /\ e = Len(f.extended) /\ y = Len(f.payload)
         /\ Len(Encoded(f)) = (2 + e) + y /\ HeaderRead(b) = 2 + e
    BY <1>3, EncodedLength, Zenon DEF HeaderRead
<1>7. j \in Nat /\ j + StillNeeded = y /\ j <= y
    <2>1. b.at >= 2 + e /\ b.at + StillNeeded = (2 + e) + y
        BY <1>3, <1>6, Zenon
    <2>2. j = b.at - (2 + e)
        BY <1>6
    <2>3. b.at \in Nat /\ StillNeeded \in Nat
        BY <1>3
    <2>4. \A a, n \in Nat : /\ a >= 2 + e /\ a + n = (2 + e) + y
                           => /\ a - (2 + e) \in Nat /\ (a - (2 + e)) + n = y
                              /\ a - (2 + e) <= y
        OBVIOUS
    <2> HIDE DEF j
    <2> QED BY <2>1, <2>2, <2>3, <2>4, Zenon
<1> HIDE DEF message, f, p, j, w
<1>8. /\ f.payload \in Seq(ByteClasses) /\ Prior(f, p) \in Seq(ByteClasses)
      /\ Encoded(f)[1] = [fin |-> f.fin, rsv |-> f.rsv, op |-> f.op]
      /\ f.fin \in BOOLEAN /\ Len(Encoded(f)) \in Nat
    BY <1>3, FrameType, WholeType, EncodedParts, EncodedLength
<1>9. m_basic_header[1].fin = f.fin /\ m_basic_header[1].op = f.op
    BY <1>3, <1>8
<1>10. w \in Seq(ByteClasses)
    BY <1>3, <1>6, <1>7, PayloadPart DEF w
<1>11. /\ MessageTypes' /\ Current' = message
       /\ m_current_msg' = IF is_control(f.op) THEN "control" ELSE "data"
       /\ is_control(f.op) => m_data_msg' = m_data_msg
       /\ ~is_control(f.op) => m_data_msg' = message
    BY <1>1, <1>3, <1>5, SetMessage
<1>12. is_control(f.op) => DataHolds(p)'
    BY <1>3, <1>11 DEF DataHolds
<1>13. message.validator # Reject =>
          CurrentHolds(b, SubSeq(f.payload, 1, b.at - HeaderRead(b)))'
    BY <1>5, <1>11, <1>12 DEF CurrentHolds, w, f, p, j
<1>14. CASE /\ message.validator = Reject
            /\ Fails("invalid_payload")
            /\ UNCHANGED <<m_state, m_bytes_needed, headers>>
    <2>1. ec' = "invalid_payload" /\ got' = <<Error("invalid_payload")>>
        BY <1>3, <1>14
    <2>2. ~ValidSoFar(Whole(f, p))
        <3> DEFINE u == SubSeq(f.payload, 1, j)
                   v == SubSeq(f.payload, j + 1, y)
        <3>1. u \in Seq(ByteClasses) /\ v \in Seq(ByteClasses)
            <4>1. \A i : (i \in 1..j \/ i \in (j + 1)..y) => i \in 1..y
                BY <1>7
            <4> QED BY <1>6, <1>7, <1>8, <4>1, SubSeqProperties, ElementOfSeq
        <3>2. u \o v = f.payload
            <4>1. 1 \in 1..(y + 1) /\ j \in (1 - 1)..y /\ y \in j..y
                BY <1>7
            <4>2. u \o v = SubSeq(f.payload, 1, y)
                BY <1>6, <1>8, <4>1, ConcatAdjacentSubSeq
            <4> QED BY <1>6, <1>8, <4>2, SubSeqFull
        <3> HIDE DEF u, v
        <3>3. \A a, c, d \in Seq(ByteClasses) : (a \o c) \o d = a \o (c \o d)
            BY ConcatAssociative
        <3>4. Whole(f, p) = w \o v
            <4>1. (Prior(f, p) \o u) \o v = Prior(f, p) \o (u \o v)
                BY <1>8, <3>1, <3>3, Zenon
            <4>2. w = Prior(f, p) \o u
                BY DEF w, u
            <4> QED BY <3>2, <4>1, <4>2 DEF Whole
        <3>5. ~ValidSoFar(w)
            BY <1>5, <1>14
        <3> QED BY <1>10, <3>1, <3>4, <3>5, ValidPrefix
    <2>3. TextFlawed(f, p)
        BY <1>5, <1>14, <2>2 DEF TextFlawed
    <2>4. got' = Meant(b)
        BY <1>3, <2>1, <2>3, MeantFlaw DEF Flaw, f, p
    <2>5. TypeOK'
        BY <1>1, <1>11, <1>14 DEF TypeOK
    <2> QED BY <1>1, <1>2, <2>1, <2>4, <2>5, <1>14, TurnKeeps
<1>15. CASE /\ message.validator # Reject /\ StillNeeded > 0
            /\ m_bytes_needed' = StillNeeded
            /\ Succeeds /\ UNCHANGED <<m_state, headers>>
    <2>1. ec' = "none" /\ got' = <<>>
        BY <1>1, <1>3, <1>15
    <2>2. BasicIsRead(reading)'
        BY <1>2, <1>3, <1>15 DEF BasicIsRead, headers, f, p
    <2>3. InStep(reading)'
        BY <1>1, <1>2, <1>3, <1>13, <1>15, <2>1, <2>2 DEF InStep, f, p
    <2>4. TypeOK'
        BY <1>1, <1>3, <1>11, <1>15 DEF TypeOK
    <2> QED BY <1>1, <2>1, <2>3, <2>4, TurnKeeps
<1>16. ASSUME message.validator # Reject, StillNeeded = 0
       PROVE  /\ Complete(b) /\ j = y /\ w = Whole(f, p)
              /\ Holds(message, MessageOp(f, p), Whole(f, p))
              /\ Flaw(f, p) = IF f.op = "text" /\ f.fin /\ message.validator # Accept
                              THEN "invalid_payload" ELSE "none"
    <2>1. b.at = Len(Encoded(f))
        BY <1>3, <1>8, <1>16
    <2>2. w = Whole(f, p) /\ j = y
        <3>1. j = y
            BY <1>7, <1>16
        <3>2. SubSeq(f.payload, 1, y) = f.payload
            BY <1>6, <1>8, SubSeqFull
        <3> QED BY <3>1, <3>2 DEF w, Whole
    <2>3. Holds(message, MessageOp(f, p), Whole(f, p))
        BY <1>5, <1>16, <2>2
    <2>4. message.validator \in Nat
        BY <1>5, <1>16 DEF Messages, Reject
    <2> QED BY <1>3, <2>1, <2>2, <2>3, <2>4, WholeFlaw DEF Complete, f
<1>17. CASE /\ message.validator # Reject /\ StillNeeded = 0
            /\ f.fin /\ finalize_message(message)
    <2>1. m_bytes_needed' = 0 /\ headers' = headers
        BY <1>17 DEF finalize_message
    <2>2. CASE f.op = "text" /\ message.validator # Accept
        <3>1. Fails("invalid_payload") /\ m_state' = m_state
            BY <1>9, <1>17, <2>2 DEF finalize_message
        <3>2. ec' = "invalid_payload" /\ got' = <<Error("invalid_payload")>>
            BY <1>3, <3>1
        <3>3. Flaw(f, p) = "invalid_payload"
            BY <1>16, <1>17, <2>2
        <3>4. got' = Meant(b)
            BY <1>3, <3>2, <3>3, MeantFlaw DEF f, p
        <3>5. TypeOK'
            BY <1>1, <1>11, <2>1, <3>1 DEF TypeOK
        <3> QED BY <1>1, <1>2, <3>2, <3>4, <3>5, <3>1, TurnKeeps
    <2>3. CASE ~(f.op = "text" /\ message.validator # Accept)
        <3>1. Succeeds /\ m_state' = "READY"
            BY <1>9, <1>17, <2>3 DEF finalize_message
        <3>2. ec' = "none" /\ got' = <<>>
            BY <1>1, <1>3, <3>1
        <3>3. Flaw(f, p) = "none" /\ Complete(b)
            BY <1>16, <1>17, <2>3
        <3>4. BasicIsRead(reading)'
            BY <1>2, <1>3, <2>1 DEF BasicIsRead, headers, f, p
        <3>5. CurrentHolds(b, f.payload)'
            <4>1. Holds(Current', MessageOp(f, p), Prior(f, p) \o f.payload)
                BY <1>11, <1>16, <1>17 DEF Whole
            <4> QED BY <1>11, <1>12, <4>1 DEF CurrentHolds, f, p
        <3>6. InStep(reading)'
            BY <1>2, <1>17, <3>1, <3>2, <3>3, <3>4, <3>5 DEF InStep, f, p
        <3>7. TypeOK'
            BY <1>11, <2>1, <3>1 DEF TypeOK
        <3> QED BY <1>1, <3>2, <3>6, <3>7, TurnKeeps
    <2> QED BY <2>2, <2>3
<1>18. CASE /\ message.validator # Reject /\ StillNeeded = 0
            /\ ~f.fin /\ reset_headers /\ Succeeds
    <2>1. /\ m_state' = "HEADER_BASIC" /\ m_bytes_needed' = 2
          /\ m_basic_header' = <<>> /\ m_extended_header' = <<>>
          /\ ec' = "none" /\ got' = <<>>
        BY <1>1, <1>3, <1>18 DEF reset_headers
    <2>2. ~is_control(f.op) /\ Flaw(f, p) = "none" /\ Complete(b)
        BY <1>3, <1>16, <1>18 DEF HeaderLegal, is_control
    <2>3. got' = Meant(b)
        BY <1>18, <2>1, <2>2 DEF Meant, Meaning, f, p
    <2>4. DataHolds(Unfinished(b))'
        <3>1. Unfinished(b) = [op |-> MessageOp(f, p), payload |-> Whole(f, p)]
            BY <1>3, <1>18, <2>2 DEF Unfinished, After, f, p
        <3>2. Holds(m_data_msg', MessageOp(f, p), Whole(f, p))
            BY <1>11, <1>16, <1>18, <2>2
        <3> QED BY <3>1, <3>2 DEF DataHolds
    <2>5. InStep(reading)'
        BY <1>2, <2>1, <2>2, <2>3, <2>4 DEF InStep, BetweenFrames, headers
    <2>6. TypeOK'
        BY <1>11, <2>1 DEF TypeOK
    <2> QED BY <1>1, <2>1, <2>5, <2>6, TurnKeeps
<1> QED BY <1>9, <1>14, <1>15, <1>17, <1>18 DEF Application, message

LEMMA SendKeeps ==
    ASSUME IInv, NEW f \in Frames, Send(f)
    PROVE  IInv'
<1>1. /\ ec = "none" /\ in = <<>> /\ wire \in Seq(FrameBytes)
      /\ wire' = wire \o [i \in 1..Len(Encoded(f)) |-> Byte(f, i, partial)]
      /\ partial' = After(f, partial)
      /\ UNCHANGED <<in, processor, ec, got, reading>>
      /\ InOrder(reading, in \o wire, partial)
    BY DEF IInv, Send, Idle
<1>2. in \o wire = wire /\ InOrder(reading, wire, partial)
    BY <1>1, ConcatEmptySeq
<1> DEFINE sent == [i \in 1..Len(Encoded(f)) |-> Byte(f, i, partial)]
<1>3. sent \in Seq(FrameBytes) /\ InOrder(reading, wire \o sent, After(f, partial))
    BY <1>1, <1>2, InOrderSent
<1>4. wire' \in Seq(FrameBytes) /\ in' \o wire' = wire'
    BY <1>1, <1>3, ConcatProperties, ConcatEmptySeq
<1>5. TypeOK' /\ InStep(reading)' /\ (reading' = NoByte \/ IsByte(reading'))
    <2>1. TypeOK'
        BY <1>1 DEF IInv, TypeOK, MessageTypes, processor, headers, messages
    <2>2. InStep(reading)'
        BY <1>1 DEF IInv, InStep, BetweenFrames, DataHolds, CurrentHolds, Current,
                    BasicIsRead, processor, headers, messages
    <2> QED BY <1>1, <2>1, <2>2 DEF IInv
<1> QED BY <1>1, <1>3, <1>4, <1>5 DEF IInv

LEMMA ReadKeeps ==
    ASSUME IInv, NEW n \in Nat, Read(n)
    PROVE  IInv'
<1>1. /\ ec = "none" /\ in = <<>> /\ wire \in Seq(FrameBytes)
      /\ n <= Len(wire)
      /\ in' = SubSeq(wire, 1, n)
      /\ wire' = SubSeq(wire, n + 1, Len(wire))
      /\ UNCHANGED <<processor, ec, got, reading, partial>>
      /\ InOrder(reading, in \o wire, partial)
    BY DEF IInv, Read, Idle
<1>2. in \o wire = wire
    BY <1>1, ConcatEmptySeq
<1>3. Len(wire) \in Nat
    BY <1>1, LenProperties
<1>4. in' \o wire' = wire
    <2>1. 1 \in 1..(Len(wire) + 1) /\ n \in (1 - 1)..Len(wire) /\ Len(wire) \in n..Len(wire)
        BY <1>1, <1>3
    <2>2. SubSeq(wire, 1, n) \o SubSeq(wire, n + 1, Len(wire)) = SubSeq(wire, 1, Len(wire))
        BY <1>1, <2>1, ConcatAdjacentSubSeq
    <2> QED BY <1>1, <2>2, SubSeqFull
<1>5. in' \in Seq(FrameBytes) /\ wire' \in Seq(FrameBytes)
    <2>1. \A i : (i \in 1..n \/ i \in (n + 1)..Len(wire)) => i \in 1..Len(wire)
        BY <1>1, <1>3
    <2> QED BY <1>1, <1>3, <2>1, SubSeqProperties, ElementOfSeq
<1>6. TypeOK' /\ InStep(reading)' /\ (reading' = NoByte \/ IsByte(reading'))
    <2>1. TypeOK'
        BY <1>1 DEF IInv, TypeOK, MessageTypes, processor, headers, messages
    <2>2. InStep(reading)'
        BY <1>1 DEF IInv, InStep, BetweenFrames, DataHolds, CurrentHolds, Current,
                    BasicIsRead, processor, headers, messages
    <2> QED BY <1>1, <2>1, <2>2 DEF IInv
<1> QED BY <1>1, <1>2, <1>4, <1>5, <1>6 DEF IInv

LEMMA GetMessageKeeps ==
    ASSUME IInv, get_message
    PROVE  IInv'
<1> DEFINE b == reading
           f == b.of
           p == b.before
<1>1. /\ m_state = "READY"
      /\ got' = Append(got, [op |-> Current.op, payload |-> Current.payload])
      /\ SetCurrent(NoMessage)
      /\ m_state' = "HEADER_BASIC" /\ m_bytes_needed' = 2
      /\ m_basic_header' = <<>> /\ m_extended_header' = <<>>
      /\ UNCHANGED <<wire, in, ec, reading, partial>>
    BY DEF get_message, reset_headers
<1>2. MessageTypes
    BY DEF IInv, TypeOK
<1>3. MessageTypes'
    <2>1. <<>> \in Seq(ByteClasses) /\ Len(<<>>) = 0
        OBVIOUS
    <2>2. /\ NoMessage \in [op : {"none", "text", "binary"}, payload : Seq(ByteClasses),
                             validator : Reject..3]
          /\ NoMessage \in [op : {"none", "control"}, payload : Seq(ByteClasses),
                             validator : {Accept}]
        BY <2>1 DEF NoMessage, Accept, Reject
    <2> QED BY <1>1, <1>2, <2>2 DEF MessageTypes, SetCurrent
<1>4. TypeOK'
    <2>1. Len(<<>>) = 0
        OBVIOUS
    <2> QED BY <1>1, <1>3, <2>1 DEF TypeOK
<1>5. CASE ec = "none"
    <2>1. /\ Complete(b) /\ BasicIsRead(b)
          /\ f.fin /\ Flaw(f, p) = "none"
          /\ CurrentHolds(b, f.payload)
          /\ got = <<>>
        BY <1>1, <1>5 DEF IInv, InStep, BetweenFrames
    <2>2. IsByte(b) /\ b.at # 0
        BY <2>1 DEF BasicIsRead, IInv, NoByte
    <2>3. /\ Current.op = MessageOp(f, p) /\ Current.payload = Whole(f, p)
          /\ m_current_msg = IF is_control(f.op) THEN "control" ELSE "data"
          /\ is_control(f.op) => DataHolds(p)
        BY <2>1 DEF CurrentHolds, Holds, Whole
    <2>4. got' = Meant(b)
        <3>1. \A m : Append(<<>>, m) = <<m>>
            OBVIOUS
        <3> QED BY <1>1, <2>1, <2>2, <2>3, <3>1 DEF Meant, Meaning
    <2>5. DataHolds(Unfinished(b))'
        <3>1. CASE is_control(f.op)
            <4>1. m_data_msg' = m_data_msg
                BY <1>1, <2>3, <3>1 DEF SetCurrent
            <4>2. Unfinished(b)' = p
                BY <1>1, <2>2, <3>1 DEF Unfinished, After
            <4> QED BY <1>1, <2>3, <3>1, <4>1, <4>2 DEF DataHolds
        <3>2. CASE ~is_control(f.op)
            <4>1. m_data_msg' = NoMessage
                BY <1>1, <2>3, <3>2 DEF SetCurrent
            <4>2. Unfinished(b)' = NoPartial
                BY <1>1, <2>1, <2>2, <3>2 DEF Unfinished, After
            <4> QED BY <4>1, <4>2 DEF DataHolds, Holds, NoMessage, NoPartial, Accept
        <3> QED BY <3>1, <3>2
    <2>6. InStep(reading)'
        BY <1>1, <2>1, <2>4, <2>5 DEF InStep, BetweenFrames, headers
    <2> QED BY <1>1, <1>4, <1>5, <2>6 DEF IInv
<1> QED BY <1>1, <1>5 DEF IInv

LEMMA ConsumeKeeps ==
    ASSUME IInv, consume
    PROVE  IInv'
BY HeaderBasicKeeps, HeaderExtendedKeeps, ApplicationKeeps DEF consume

LEMMA StutterKeeps ==
    ASSUME IInv, UNCHANGED vars
    PROVE  IInv'
<1>1. /\ UNCHANGED <<wire, in, m_state, m_bytes_needed, m_basic_header,
                     m_extended_header, m_current_msg, m_data_msg, m_control_msg>>
      /\ UNCHANGED <<ec, got, reading, partial>>
    BY DEF vars, processor, headers, messages
<1>2. TypeOK'
    BY <1>1 DEF IInv, TypeOK, MessageTypes
<1>3. InStep(reading) => InStep(reading)'
    BY <1>1 DEF InStep, BetweenFrames, DataHolds, CurrentHolds, Current, BasicIsRead, headers
<1> QED BY <1>1, <1>2, <1>3 DEF IInv

(* A processor that was not fed is in step, whatever the wire. *)
LEMMA FreshInStep ==
    ASSUME m_state = "HEADER_BASIC", m_bytes_needed = 2,
           m_basic_header = <<>>, m_extended_header = <<>>, m_current_msg = "data",
           m_data_msg = NoMessage, m_control_msg = NoMessage, got = <<>>
    PROVE  TypeOK /\ InStep(NoByte)
<1>1. Len(<<>>) = 0 /\ <<>> \in Seq(ByteClasses)
    OBVIOUS
<1>2. /\ NoMessage \in [op : {"none", "text", "binary"}, payload : Seq(ByteClasses),
                         validator : Reject..3]
      /\ NoMessage \in [op : {"none", "control"}, payload : Seq(ByteClasses),
                         validator : {Accept}]
    BY <1>1 DEF NoMessage, Accept, Reject
<1>3. TypeOK
    BY <1>1, <1>2 DEF TypeOK, MessageTypes
<1>4. Complete(NoByte) /\ Unfinished(NoByte) = NoPartial /\ Meant(NoByte) = <<>>
    BY DEF Complete, Unfinished, Meant, NoByte
<1>5. Holds(NoMessage, "none", <<>>)
    BY DEF Holds, NoMessage, Accept
<1>6. DataHolds(NoPartial)
    BY <1>5 DEF DataHolds, NoPartial
<1> QED BY <1>3, <1>4, <1>6 DEF InStep, BetweenFrames, headers

LEMMA InitHolds == Init => IInv
<1> SUFFICES ASSUME Init PROVE IInv
    OBVIOUS
<1>1. TypeOK /\ InStep(NoByte)
    BY FreshInStep DEF Init
<1>2. /\ in = <<>> /\ wire = <<>> /\ ec = "none" /\ reading = NoByte
      /\ partial = NoPartial
    BY DEF Init
<1>3. <<>> \in Seq(FrameBytes) /\ <<>> \o <<>> = <<>> /\ DOMAIN <<>> = {}
    OBVIOUS
<1>4. InOrder(NoByte, <<>>, NoPartial)
    BY <1>3 DEF InOrder, Complete, Unfinished, NoByte
<1> QED BY <1>1, <1>2, <1>3, <1>4 DEF IInv

LEMMA StepKeeps == IInv /\ [Next]_vars => IInv'
<1> SUFFICES ASSUME IInv, [Next]_vars PROVE IInv'
    OBVIOUS
<1>1. ASSUME NEW f \in Frames, Send(f) PROVE IInv'
    BY <1>1, SendKeeps
<1>2. ASSUME NEW n \in 1..MaxRead, Read(n) PROVE IInv'
    BY <1>2, ReadKeeps, SizesAssumption
<1>3. CASE consume
    BY <1>3, ConsumeKeeps
<1>4. CASE get_message
    BY <1>4, GetMessageKeeps
<1>5. CASE UNCHANGED vars
    BY <1>5, StutterKeeps
<1> QED BY <1>1, <1>2, <1>3, <1>4, <1>5 DEF Next

-----------------------------------------------------------------------------
(* The limit of a message *)

(* What the message that is read comes to, with the rest of its frame. *)
LEMMA CurrentFits ==
    ASSUME IInv, ec = "none", m_state = "APPLICATION"
    PROVE  IF m_current_msg = "control"
           THEN Len(Current.payload) + m_bytes_needed <= PayloadSizeBasic
           ELSE \/ Len(Current.payload) + m_bytes_needed <= MaxMessageSize
                \/ Len(Current.payload) + m_bytes_needed >= SizeWidth
<1> DEFINE b == reading
           f == b.of
           p == b.before
           j == b.at - HeaderRead(b)
<1>1. /\ b.at + m_bytes_needed = Len(Encoded(f))
      /\ b.at >= HeaderRead(b) /\ b.at # 0
      /\ HeaderLegal(f, p) /\ ~TooBig(f, p)
      /\ m_current_msg = IF is_control(f.op) THEN "control" ELSE "data"
      /\ Current.payload = Prior(f, p) \o SubSeq(f.payload, 1, j)
    <2>1. /\ b.at + m_bytes_needed = Len(Encoded(b.of))
          /\ b.at >= HeaderRead(b)
          /\ BasicIsRead(b) /\ ~TooBig(b.of, b.before)
          /\ CurrentHolds(b, SubSeq(b.of.payload, 1, b.at - HeaderRead(b)))
        BY DEF IInv, InStep, BetweenFrames
    <2>2. b.at # 0
        BY <2>1 DEF BasicIsRead
    <2> QED BY <2>1, <2>2 DEF BasicIsRead, CurrentHolds, Holds
<1>2. IsByte(b) /\ f \in Frames /\ p \in Partials /\ b.at \in Nat /\ m_bytes_needed \in Nat
    BY <1>1 DEF IInv, TypeOK, IsByte, FrameBytes, NoByte
<1>3. PICK e \in Nat, y \in Nat :
         /\ y = Len(f.payload)
         /\ Len(Encoded(f)) = (2 + e) + y /\ HeaderRead(b) = 2 + e
    BY <1>2, EncodedLength, Zenon DEF HeaderRead
<1>4. j \in Nat /\ j + m_bytes_needed = y /\ j <= y
    <2>1. \A a, n \in Nat : /\ a >= 2 + e /\ a + n = (2 + e) + y
                           => /\ a - (2 + e) \in Nat /\ (a - (2 + e)) + n = y
                              /\ a - (2 + e) <= y
        OBVIOUS
    <2>2. j = b.at - (2 + e)
        BY <1>3
    <2>3. b.at >= 2 + e /\ b.at + m_bytes_needed = (2 + e) + y
        BY <1>1, <1>3, Zenon
    <2> HIDE DEF j
    <2> QED BY <1>2, <2>1, <2>2, <2>3, Zenon
<1>5. PICK n \in Nat : n = Len(Prior(f, p))
    BY <1>2, WholeType, LenProperties
<1>6. Len(Current.payload) + m_bytes_needed = n + y
    <2>1. Len(Current.payload) = n + j
        <3> HIDE DEF f, p, j
        <3> QED BY <1>1, <1>2, <1>3, <1>4, <1>5, PayloadPart
    <2> HIDE DEF j
    <2> QED BY <1>2, <1>4, <2>1
<1>7. CASE is_control(f.op)
    <2>1. f.size \in 0..PayloadSizeBasic /\ f.size \notin Codes
        BY <1>1, <1>2, <1>7, FrameType DEF HeaderLegal, is_control
    <2>2. y = f.size
        BY <1>2, <1>3, <2>1, FrameType DEF get_payload_size, Header
    <2>3. n = 0
        BY <1>5, <1>7 DEF Prior
    <2>4. n + y <= PayloadSizeBasic
        BY <2>1, <2>2, <2>3, SizesAssumption
    <2> QED BY <1>1, <1>6, <1>7, <2>4
<1>8. CASE ~is_control(f.op)
    <2>1. ~(Added(n, y) > MaxMessageSize)
        BY <1>1, <1>3, <1>5, <1>8 DEF TooBig
    <2>2. Added(n, y) \in Nat /\ (n + y < SizeWidth => Added(n, y) = n + y)
        BY AddedValue
    <2>3. n + y <= MaxMessageSize \/ n + y >= SizeWidth
        <3>1. \A a, l \in Nat : ~(a > l) => a <= l
            OBVIOUS
        <3>2. \A a, w \in Nat : a < w \/ a >= w
            OBVIOUS
        <3>3. n + y \in Nat
            OBVIOUS
        <3> QED BY <2>1, <2>2, <3>1, <3>2, <3>3, SizesAssumption, Zenon
    <2> QED BY <1>1, <1>6, <1>8, <2>3
<1> QED BY <1>7, <1>8

LEMMA BoundedInit == Init => MessageBounded
BY SizesAssumption DEF Init, MessageBounded, NoMessage

(* Outside APPLICATION a message is only dropped, or a new one begun. *)
LEMMA KeptBounded ==
    ASSUME MessageBounded, MessageTypes, TypeOK', m_state # "APPLICATION",
           m_data_msg'.payload = m_data_msg.payload \/ m_data_msg'.payload = <<>>,
           m_control_msg'.payload = m_control_msg.payload \/ m_control_msg'.payload = <<>>
    PROVE  MessageBounded'
<1>1. Len(m_data_msg.payload) \in Nat /\ Len(<<>>) = 0
    BY LenProperties DEF MessageTypes
<1>2. Awaited = 0 /\ Awaited' \in Nat
    BY DEF Awaited, TypeOK
<1>3. Len(m_control_msg'.payload) <= PayloadSizeBasic
    BY <1>1, SizesAssumption DEF MessageBounded
<1>4. PICK n \in Nat, l \in Nat, w \in Nat, a \in Nat :
         n = Len(m_data_msg.payload) /\ l = MaxMessageSize /\ w = SizeWidth /\ a = Awaited'
    BY <1>1, <1>2, SizesAssumption
<1>5. n > l => n + 0 >= w
    BY <1>2, <1>4 DEF MessageBounded
<1>6. \A k \in {n, 0} : k > l => k + a >= w
    BY <1>5
<1>7. Len(m_data_msg'.payload) \in {n, 0}
    BY <1>1, <1>4
<1> QED BY <1>3, <1>4, <1>6, <1>7 DEF MessageBounded

(* The bytes of a turn go to the message, those behind them are still needed. *)
LEMMA ApplicationBounded ==
    ASSUME IInv, MessageBounded, Application
    PROVE  MessageBounded'
<1> DEFINE message == process_payload_bytes(Current, Chunk)
<1>1. /\ ec = "none" /\ m_state = "APPLICATION" /\ SetCurrent(message)
      /\ GoesOn /\ Take /\ wire' = wire
      /\ MessageTypes /\ m_bytes_needed \in Nat /\ in \in Seq(FrameBytes)
    BY DEF Application, GoesOn, IInv, TypeOK
<1>2. PICK k \in Nat, t \in Nat, y \in Nat :
         /\ k = Len(Current.payload) /\ t = Taken /\ y = StillNeeded
         /\ t + y = m_bytes_needed
    <2>1. Len(in) \in Nat /\ Len(Current.payload) \in Nat
        BY <1>1, CurrentType, LenProperties DEF Messages
    <2> QED BY <1>1, <2>1 DEF Taken, StillNeeded
<1>3. Len(message.payload) = k + t
    <2>1. Chunk \in Seq(ByteClasses) /\ Current \in Messages
        BY <1>1, PayloadTaken, CurrentType
    <2>2. Len(Chunk) = t
        <3>1. Len(in) \in Nat /\ Taken <= Len(in)
            BY <1>1, <1>2, LenProperties DEF Taken
        <3>2. Len(SubSeq(in, 1, Taken)) = t
            BY <1>1, <1>2, <3>1, SubSeqProperties
        <3>3. PICK s : s = SubSeq(in, 1, Taken)
            OBVIOUS
        <3>4. Chunk = [i \in 1..t |-> Value(s[i])]
            BY <3>2, <3>3 DEF Chunk, Values
        <3> QED BY <3>4
    <2>3. Current.payload \in Seq(ByteClasses)
        BY <2>1 DEF Messages
    <2>4. Len(Current.payload \o Chunk) = k + t
        <3>1. \A a, c \in Seq(ByteClasses) : Len(a \o c) = Len(a) + Len(c)
            BY ConcatProperties
        <3>2. Len(Current.payload \o Chunk) = Len(Current.payload) + Len(Chunk)
            BY <2>1, <2>3, <3>1, Zenon
        <3> QED BY <1>2, <2>2, <3>2, Zenon
    <2>5. message.payload = Current.payload \o Chunk
        BY <2>1 DEF process_payload_bytes, Messages
    <2> QED BY <2>4, <2>5
<1> HIDE DEF message
<1>4. PICK n \in Nat :
         /\ n = m_bytes_needed'
         /\ m_state' = "APPLICATION" => n >= y
         /\ m_state' # "APPLICATION" => y = 0
    BY <1>1, <1>2 DEF Application, finalize_message, reset_headers, message
<1>5. CASE m_current_msg = "control"
    <2>1. /\ m_control_msg' = message /\ m_data_msg' = m_data_msg
          /\ m_current_msg' = m_current_msg
        BY <1>1, <1>5 DEF SetCurrent
    <2>2. (k + t) + y <= PayloadSizeBasic
        BY <1>1, <1>2, <1>5, CurrentFits
    <2>3. Awaited = 0 /\ Awaited' = 0
        BY <1>5, <2>1 DEF Awaited
    <2>4. k + t <= PayloadSizeBasic
        BY <2>2, SizesAssumption
    <2> QED BY <1>3, <2>1, <2>3, <2>4 DEF MessageBounded
<1>6. CASE m_current_msg # "control"
    <2>1. /\ m_data_msg' = message /\ m_control_msg' = m_control_msg
          /\ m_current_msg' = m_current_msg /\ m_current_msg = "data"
        BY <1>1, <1>6 DEF SetCurrent, MessageTypes
    <2>2. (k + t) + y <= MaxMessageSize \/ (k + t) + y >= SizeWidth
        BY <1>1, <1>2, <1>6, CurrentFits
    <2>3. PICK a \in Nat : a = Awaited' /\ a >= y
        BY <1>4, <2>1 DEF Awaited
    <2>4. k + t > MaxMessageSize => (k + t) + a >= SizeWidth
        <3>1. \A i, l, w, c \in Nat : /\ (i + y <= l \/ i + y >= w) /\ i > l /\ c >= y
                                     => i + c >= w
            OBVIOUS
        <3>2. k + t \in Nat
            OBVIOUS
        <3> QED BY <2>2, <2>3, <3>1, <3>2, SizesAssumption, Zenon
    <2> QED BY <1>3, <2>1, <2>3, <2>4 DEF MessageBounded
<1> QED BY <1>5, <1>6

LEMMA BoundedStep == IInv /\ MessageBounded /\ [Next]_vars => MessageBounded'
<1> SUFFICES ASSUME IInv, MessageBounded, [Next]_vars PROVE MessageBounded'
    OBVIOUS
<1>1. TypeOK' /\ MessageTypes
    BY StepKeeps DEF IInv, TypeOK
<1>2. CASE UNCHANGED processor
    BY <1>2 DEF MessageBounded, Awaited, processor, messages
<1>3. CASE HeaderBasic
    BY <1>1, <1>3, KeptBounded DEF HeaderBasic, messages
<1>4. CASE HeaderExtended
    <2>1. m_state # "APPLICATION"
        BY <1>4 DEF HeaderExtended
    <2>2. /\ m_data_msg' = m_data_msg \/ m_data_msg'.payload = <<>>
          /\ m_control_msg' = m_control_msg \/ m_control_msg'.payload = <<>>
        BY <1>4 DEF HeaderExtended, Started, NewMessage, messages
    <2> QED BY <1>1, <2>1, <2>2, KeptBounded
<1>5. CASE Application
    BY <1>5, ApplicationBounded
<1>6. CASE get_message
    BY <1>1, <1>6, KeptBounded DEF get_message, SetCurrent, NoMessage
<1>7. CASE UNCHANGED vars
    BY <1>2, <1>7 DEF vars
<1> QED BY <1>2, <1>3, <1>4, <1>5, <1>6, <1>7 DEF Next, Send, Read, consume

-----------------------------------------------------------------------------
(* What the invariant says of the properties *)

LEMMA InvariantAsSent == IInv => AsSent
<1> SUFFICES ASSUME IInv PROVE AsSent
    OBVIOUS
<1>1. CASE ec # "none"
    BY <1>1 DEF IInv, AsSent
<1>2. CASE ec = "none"
    <2>1. InStep(reading)
        BY <1>2 DEF IInv
    <2>2. BetweenFrames => Complete(reading) /\ got = Meant(reading)
        BY <2>1 DEF InStep, BetweenFrames
    <2>3. got # <<>> => got = Meant(reading)
        BY <2>1 DEF InStep
    <2> QED BY <1>2, <2>2, <2>3 DEF AsSent
<1> QED BY <1>1, <1>2

(* What waits for bytes when there are none is between two frames. *)
LEMMA InvariantNothingHeldBack == IInv => NothingHeldBack
<1> SUFFICES ASSUME IInv, wire = <<>>, ec = "none", Idle
             PROVE  /\ BetweenFrames
                    /\ got = Meant(reading)
                    /\ m_data_msg.op = partial.op
                    /\ m_data_msg.payload = partial.payload
    BY DEF NothingHeldBack
<1>1. /\ InOrder(reading, in \o wire, partial) /\ InStep(reading)
      /\ in = <<>> /\ m_state # "READY" /\ m_bytes_needed # 0
      /\ reading = NoByte \/ IsByte(reading)
    BY DEF IInv, Idle, GoesOn
<1>2. in \o wire = <<>>
    BY <1>1
<1>3. Complete(reading) /\ partial = Unfinished(reading)
    BY <1>1, <1>2 DEF InOrder
<1>4. BetweenFrames
    <2> SUFFICES ASSUME ~BetweenFrames PROVE FALSE
        OBVIOUS
    <2>1. reading.at # 0
        BY <1>1 DEF InStep, BasicIsRead
    <2>2. /\ IsByte(reading) /\ reading.of \in Frames
          /\ reading.at = Len(Encoded(reading.of))
        BY <1>1, <1>3, <2>1 DEF Complete, NoByte, IsByte, FrameBytes
    <2>3. PICK e \in Nat, y \in Nat :
             /\ HeaderRead(reading) = 2 + e
             /\ reading.at = (2 + e) + y
        BY <2>2, EncodedLength, Zenon DEF HeaderRead
    <2>4. m_bytes_needed \in Nat /\ m_bytes_needed > 0
        BY <1>1 DEF IInv, TypeOK
    <2>5. CASE m_state = "HEADER_BASIC" /\ m_bytes_needed = 1 /\ reading.at = 1
        BY <2>3, <2>5
    <2>6. CASE reading.at + m_bytes_needed = HeaderRead(reading)
        BY <2>3, <2>4, <2>6
    <2>7. CASE reading.at + m_bytes_needed = Len(Encoded(reading.of))
        BY <2>2, <2>3, <2>4, <2>7
    <2> QED BY <1>1, <2>5, <2>6, <2>7 DEF InStep
<1>5. DataHolds(Unfinished(reading)) /\ got = Meant(reading)
    BY <1>1, <1>4 DEF InStep, BetweenFrames
<1> QED BY <1>3, <1>4, <1>5 DEF DataHolds, Holds

-----------------------------------------------------------------------------
(***************************************************************************)
(* Invariant: the bytes on their way are the frames of the peer in order,  *)
(* and consume has done with those it took what its state says.            *)
(***************************************************************************)
THEOREM Invariant == Spec => []IInv
<1> QED BY InitHolds, StepKeeps, PTL DEF Spec

(***************************************************************************)
(* TypeCorrect: wherever the reads cut the bytes, the parts of the header  *)
(* that were read and the bytes that are needed fit the processor's state. *)
(***************************************************************************)
THEOREM TypeCorrect == Spec => []TypeOK
<1>1. IInv => TypeOK
    BY DEF IInv
<1> QED BY <1>1, Invariant, PTL

(***************************************************************************)
(* MessagesBounded: whatever the peer sends, a control message keeps to    *)
(* PayloadSizeBasic.  A data message of any number of fragments keeps to   *)
(* MaxMessageSize as long as with the frame that is read it is shorter     *)
(* than SizeWidth; for a longer one consume's sum of sizes wraps, and      *)
(* nothing is said of it.                                                  *)
(***************************************************************************)
THEOREM MessagesBounded == Spec => []MessageBounded
<1> QED BY BoundedInit, BoundedStep, Invariant, PTL DEF Spec

(***************************************************************************)
(* DeliversAsSent: wherever the reads cut the bytes, what consume delivers *)
(* is what the frames of the peer mean, and nothing follows an error.      *)
(***************************************************************************)
THEOREM DeliversAsSent == Spec => []AsSent
<1> QED BY Invariant, InvariantAsSent, PTL

(***************************************************************************)
(* HoldsNothingBack: once every byte was read everything is delivered and  *)
(* the processor has just the fragments of the unfinished message.         *)
(***************************************************************************)
THEOREM HoldsNothingBack == Spec => []NothingHeldBack
<1> QED BY Invariant, InvariantNothingHeldBack, PTL
=============================================================================
