----------------------------- MODULE ListLemmas -----------------------------
(***************************************************************************)
(* Facts about sequences without duplicates, as the pool's lists, the      *)
(* driver's buffer lists and the frame queue are: what an insertion at     *)
(* either end and the removal of the head do to the elements.              *)
(***************************************************************************)
EXTENDS Integers, Sequences, Functions, SequenceTheorems, TLAPS

\* The elements of a list are what its positions hold.
LEMMA Elements ==
    ASSUME NEW S, NEW s \in Seq(S)
    PROVE  /\ \A x : x \in Range(s) <=> \E i \in 1 .. Len(s) : x = s[i]
           /\ Range(s) \subseteq S
           /\ IsInjective(s) <=> \A i, j \in 1 .. Len(s) : s[i] = s[j] => i = j
  BY DEF Range, IsInjective

\* The empty list has no elements.
LEMMA NoElements == Range(<<>>) = {} /\ IsInjective(<<>>) /\ Len(<<>>) = 0
  BY DEF Range, IsInjective

\* Insertion at the head (SLIST_INSERT_HEAD).
LEMMA HeadInserted ==
    ASSUME NEW S, NEW s \in Seq(S), NEW e \in S
    PROVE  /\ <<e>> \o s \in Seq(S)
           /\ Len(<<e>> \o s) = Len(s) + 1
           /\ Range(<<e>> \o s) = {e} \cup Range(s)
           /\ IsInjective(s) /\ e \notin Range(s) => IsInjective(<<e>> \o s)
  <1> DEFINE l == <<e>> \o s
  <1>1. l \in Seq(S) /\ Len(l) = Len(s) + 1
    OBVIOUS
  <1>2. l[1] = e /\ \A i \in 1 .. Len(s) : l[i + 1] = s[i]
    OBVIOUS
  <1>3. \A i \in 1 .. Len(l) : i = 1 \/ (i - 1 \in 1 .. Len(s) /\ l[i] = s[i - 1])
    BY <1>1, <1>2
  <1>e. /\ \A x : x \in Range(s) <=> \E i \in 1 .. Len(s) : x = s[i]
        /\ \A x : x \in Range(l) <=> \E i \in 1 .. Len(l) : x = l[i]
        /\ IsInjective(s) <=> \A i, j \in 1 .. Len(s) : s[i] = s[j] => i = j
        /\ IsInjective(l) <=> \A i, j \in 1 .. Len(l) : l[i] = l[j] => i = j
    BY <1>1, Elements
  <1> HIDE DEF l
  <1>4. Range(l) = {e} \cup Range(s)
    <2>1. Range(l) \subseteq {e} \cup Range(s)
      BY <1>1, <1>2, <1>3, <1>e
    <2>2. \A i \in 1 .. Len(s) : i + 1 \in 1 .. Len(l) /\ l[i + 1] = s[i]
      BY <1>1, <1>2
    <2>3. {e} \cup Range(s) \subseteq Range(l)
      BY <1>1, <1>2, <2>2, <1>e
    <2> QED
      BY <2>1, <2>3
  <1>5. ASSUME IsInjective(s), e \notin Range(s)
        PROVE  IsInjective(l)
    <2> SUFFICES ASSUME NEW i \in 1 .. Len(l), NEW j \in 1 .. Len(l), l[i] = l[j]
                 PROVE  i = j
      BY <1>1, <1>e
    <2>1. \A k \in 1 .. Len(s) : s[k] # e
      BY <1>5, <1>e
    <2>2. \A k, m \in 1 .. Len(s) : s[k] = s[m] => k = m
      BY <1>5, <1>e
    <2>3. CASE i = 1
      BY <1>2, <1>3, <2>1, <2>3
    <2>4. CASE j = 1
      BY <1>2, <1>3, <2>1, <2>4
    <2>5. CASE i # 1 /\ j # 1
      <3>1. i - 1 \in 1 .. Len(s) /\ j - 1 \in 1 .. Len(s) /\ s[i - 1] = s[j - 1]
        BY <1>3, <2>5
      <3>2. i - 1 = j - 1
        BY <2>2, <3>1
      <3> QED
        BY <1>1, <3>2
    <2> QED
      BY <2>3, <2>4, <2>5
  <1> QED
    BY <1>1, <1>4, <1>5 DEF l

\* Removal of the head (SLIST_FIRST and SLIST_REMOVE, a FIFO's receive).
LEMMA HeadRemoved ==
    ASSUME NEW S, NEW s \in Seq(S), s # <<>>
    PROVE  /\ Head(s) \in S /\ Tail(s) \in Seq(S)
           /\ Len(Tail(s)) = Len(s) - 1 /\ Len(s) > 0
           /\ Range(s) = {Head(s)} \cup Range(Tail(s))
           /\ IsInjective(s) => Head(s) \notin Range(Tail(s)) /\ IsInjective(Tail(s))
  <1> DEFINE l == Tail(s)
  <1>1. /\ Head(s) = s[1] /\ s[1] \in S /\ 1 \in 1 .. Len(s) /\ Len(s) > 0
        /\ l \in Seq(S) /\ Len(l) = Len(s) - 1
        /\ \A i \in 1 .. Len(l) : i + 1 \in 1 .. Len(s) /\ l[i] = s[i + 1]
    OBVIOUS
  <1>2. \A i \in 1 .. Len(s) : i = 1 \/ (i - 1 \in 1 .. Len(l) /\ s[i] = l[i - 1])
    BY <1>1
  <1>e. /\ \A x : x \in Range(s) <=> \E i \in 1 .. Len(s) : x = s[i]
        /\ \A x : x \in Range(l) <=> \E i \in 1 .. Len(l) : x = l[i]
        /\ IsInjective(s) <=> \A i, j \in 1 .. Len(s) : s[i] = s[j] => i = j
        /\ IsInjective(l) <=> \A i, j \in 1 .. Len(l) : l[i] = l[j] => i = j
    BY <1>1, Elements
  <1> HIDE DEF l
  <1>3. Range(s) = {Head(s)} \cup Range(l)
    <2>1. ASSUME NEW x \in Range(s)
          PROVE  x \in {Head(s)} \cup Range(l)
      <3>1. PICK i \in 1 .. Len(s) : x = s[i]
        BY <1>e
      <3>2. CASE i = 1
        BY <1>1, <3>1, <3>2
      <3>3. CASE i - 1 \in 1 .. Len(l) /\ s[i] = l[i - 1]
        BY <1>e, <3>1, <3>3
      <3> QED
        BY <1>2, <3>2, <3>3
    <2>2. {Head(s)} \cup Range(l) \subseteq Range(s)
      BY <1>1, <1>e
    <2> QED
      BY <2>1, <2>2
  <1>4. ASSUME IsInjective(s)
        PROVE  Head(s) \notin Range(l) /\ IsInjective(l)
    <2>1. \A i, j \in 1 .. Len(s) : s[i] = s[j] => i = j
      BY <1>4, <1>e
    <2>2. \A i \in 1 .. Len(l) : l[i] # s[1]
      BY <1>1, <2>1
    <2>3. \A i, j \in 1 .. Len(l) : l[i] = l[j] => i = j
      BY <1>1, <2>1
    <2> QED
      BY <1>1, <2>2, <2>3, <1>e
  <1> QED
    BY <1>1, <1>3, <1>4 DEF l

\* Insertion at the tail (xQueueSend, VIDIOC_QBUF).
LEMMA TailInserted ==
    ASSUME NEW S, NEW s \in Seq(S), NEW e \in S
    PROVE  /\ Append(s, e) \in Seq(S)
           /\ Len(Append(s, e)) = Len(s) + 1
           /\ Range(Append(s, e)) = {e} \cup Range(s)
           /\ IsInjective(s) /\ e \notin Range(s) => IsInjective(Append(s, e))
  <1> DEFINE l == Append(s, e)
  <1>1. l \in Seq(S) /\ Len(l) = Len(s) + 1
    OBVIOUS
  <1>2. l[Len(l)] = e /\ \A i \in 1 .. Len(s) : i \in 1 .. Len(l) /\ l[i] = s[i]
    OBVIOUS
  <1>3. \A i \in 1 .. Len(l) : i = Len(l) \/ (i \in 1 .. Len(s) /\ l[i] = s[i])
    BY <1>1, <1>2
  <1>e. /\ \A x : x \in Range(s) <=> \E i \in 1 .. Len(s) : x = s[i]
        /\ \A x : x \in Range(l) <=> \E i \in 1 .. Len(l) : x = l[i]
        /\ IsInjective(s) <=> \A i, j \in 1 .. Len(s) : s[i] = s[j] => i = j
        /\ IsInjective(l) <=> \A i, j \in 1 .. Len(l) : l[i] = l[j] => i = j
    BY <1>1, Elements
  <1> HIDE DEF l
  <1>4. Range(l) = {e} \cup Range(s)
    <2>1. Range(l) \subseteq {e} \cup Range(s)
      BY <1>1, <1>2, <1>3, <1>e
    <2>2. Len(l) \in 1 .. Len(l)
      BY <1>1
    <2>3. {e} \cup Range(s) \subseteq Range(l)
      BY <1>1, <1>2, <2>2, <1>e
    <2> QED
      BY <2>1, <2>3
  <1>5. ASSUME IsInjective(s), e \notin Range(s)
        PROVE  IsInjective(l)
    <2> SUFFICES ASSUME NEW i \in 1 .. Len(l), NEW j \in 1 .. Len(l), l[i] = l[j]
                 PROVE  i = j
      BY <1>1, <1>e
    <2>1. \A k \in 1 .. Len(s) : s[k] # e
      BY <1>5, <1>e
    <2>2. \A k, m \in 1 .. Len(s) : s[k] = s[m] => k = m
      BY <1>5, <1>e
    <2> QED
      BY <1>1, <1>2, <1>3, <2>1, <2>2
  <1> QED
    BY <1>1, <1>4, <1>5 DEF l
=============================================================================
