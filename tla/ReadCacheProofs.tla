-------------------------- MODULE ReadCacheProofs --------------------------
(***************************************************************************)
(* What ReadCache promises for any items, questions, keys, readers, life   *)
(* times and durations: no answer is served for longer than its life time  *)
(* and a request after it stopped being true.                              *)
(***************************************************************************)
EXTENDS ReadCache, TLAPS

\* What a request in flight has read was true at some time since it began.
Read1(r) ==
    At(r, "read") =>
        /\ req[r].q \in Questions
        /\ req[r].since <= now /\ now <= req[r].since + Span
        /\ \A k \in Queries \ req[r].todo, i \in Matches[req[r].q] :
              (i \in req[r].answer[k]) # (i \in present) => req[r].since <= changed[i]

\* An entry is there until its time comes, which is no later than one life time
\* from now, nor than a life time and a request after the last change that it
\* does not tell of.
Entry1(k) ==
    cache[k] # Null =>
        /\ now < cache[k].exp /\ cache[k].exp <= now + Ttl
        /\ \A s \in Queries, i \in Matches[cache[k].q] :
              (i \in cache[k].answer[s]) # (i \in present) =>
                  cache[k].exp <= changed[i] + Ttl + Span

IInv ==
    /\ TypeOK
    /\ \A i \in Items : changed[i] <= now
    /\ \A r \in Readers : Read1(r)
    /\ \A k \in Keys : Entry1(k)

----------------------------------------------------------------------------
LEMMA InitInv == Init => IInv
  BY ReadCacheAssumption DEF Init, IInv, TypeOK, Read1, Entry1, At, Idle, Nothing, Request, Answer

LEMMA MissInv ==
    ASSUME IInv, NEW r \in Readers, NEW q \in Questions, Miss(r, q)
    PROVE  IInv'
  <1> USE ReadCacheAssumption DEF Miss
  <1>1. TypeOK'
    BY DEF IInv, TypeOK, Request, Answer, Nothing
  <1>2. \A s \in Readers : Read1(s)'
    BY DEF IInv, TypeOK, Read1, At, Request
  <1>3. \A k \in Keys : Entry1(k)'
    BY DEF IInv, Entry1
  <1> QED BY <1>1, <1>2, <1>3 DEF IInv

LEMMA ReadInv ==
    ASSUME IInv, NEW r \in Readers, NEW k \in Queries, Read(r, k)
    PROVE  IInv'
  <1> USE ReadCacheAssumption
  <1> DEFINE old == req[r]
             new == [old EXCEPT !.answer[k] = present \cap Matches[old.q],
                                !.todo = old.todo \ {k}]
  <1>1. /\ req' = [req EXCEPT ![r] = new]
        /\ UNCHANGED <<present, changed, cache, now>>
    BY DEF Read
  <1>2. old \in Request /\ old.answer \in Answer
    BY DEF IInv, TypeOK, Request
  <1>3. /\ new.pc = old.pc /\ new.q = old.q /\ new.since = old.since
        /\ new.todo = old.todo \ {k}
        /\ new.answer = [old.answer EXCEPT ![k] = present \cap Matches[old.q]]
    BY <1>2 DEF Request
  <1>4. new.answer \in Answer
    BY <1>2, <1>3 DEF Answer, IInv, TypeOK
  <1>5. new \in Request
    <2> DEFINE a == [old.answer EXCEPT ![k] = present \cap Matches[old.q]]
               t == old.todo \ {k}
    <2>1. a \in Answer /\ t \in SUBSET Queries
      BY <1>2, <1>3, <1>4 DEF Request
    <2>2. new = [old EXCEPT !.answer = a, !.todo = t]
      OBVIOUS
    <2> HIDE DEF a, t
    <2>3. [old EXCEPT !.answer = a, !.todo = t] \in Request
      BY <1>2, <2>1 DEF Request
    <2> QED BY <2>2, <2>3
  <1> HIDE DEF new
  <1>6. TypeOK'
    BY <1>1, <1>5 DEF IInv, TypeOK
  <1>7. ASSUME NEW s \in Readers PROVE Read1(s)'
    <2>1. CASE s # r
      BY <1>1, <2>1 DEF IInv, TypeOK, Read1, At
    <2>2. CASE s = r
      <3>1. req'[s] = new
        BY <1>1, <2>2 DEF IInv, TypeOK
      <3>2. SUFFICES ASSUME new.pc = "read"
                     PROVE  /\ new.q \in Questions
                            /\ new.since <= now /\ now <= new.since + Span
                            /\ \A c \in Queries \ new.todo, i \in Matches[new.q] :
                                  (i \in new.answer[c]) # (i \in present) =>
                                      new.since <= changed[i]
        BY <1>1, <3>1 DEF Read1, At
      <3>3. /\ old.q \in Questions /\ old.since <= now /\ now <= old.since + Span
            /\ \A c \in Queries \ old.todo, i \in Matches[old.q] :
                  (i \in old.answer[c]) # (i \in present) => old.since <= changed[i]
        BY <1>3, <3>2 DEF IInv, Read1, At
      <3> HIDE DEF old
      <3>4. ASSUME NEW c \in Queries \ new.todo, NEW i \in Matches[new.q],
                   (i \in new.answer[c]) # (i \in present)
            PROVE  new.since <= changed[i]
        <4>1. new.answer[k] = present \cap Matches[old.q]
          BY <1>2, <1>3 DEF Answer
        <4>2. c # k
          BY <1>3, <3>4, <4>1
        <4>3. new.answer[c] = old.answer[c]
          BY <1>2, <1>3, <4>2 DEF Answer
        <4> QED BY <4>2, <4>3, <1>3, <3>3, <3>4
      <3> QED BY <1>3, <3>3, <3>4
    <2> QED BY <2>1, <2>2
  <1>8. \A c \in Keys : Entry1(c)'
    BY <1>1 DEF IInv, Entry1
  <1>9. \A i \in Items : changed'[i] <= now'
    BY <1>1 DEF IInv
  <1> QED BY <1>6, <1>7, <1>8, <1>9 DEF IInv

LEMMA StoreInv ==
    ASSUME IInv, NEW r \in Readers, Store(r)
    PROVE  IInv'
  <1> USE ReadCacheAssumption DEF Store, Expiry
  <1>0. req[r].q \in Questions /\ KeyOf[req[r].q] \in Keys
    BY DEF IInv, Read1
  <1>1. TypeOK'
    BY <1>0 DEF IInv, TypeOK, Request, Answer, Entry, Idle, Nothing
  <1>2. \A s \in Readers : Read1(s)'
    BY DEF IInv, TypeOK, Read1, At, Idle
  <1>3. \A k \in Keys : Entry1(k)'
    <2> SUFFICES ASSUME NEW k \in Keys, cache'[k] # Null PROVE Entry1(k)'
      BY DEF Entry1
    <2>1. CASE k = KeyOf[req[r].q]
      <3>1. cache'[k] = [q |-> req[r].q, answer |-> req[r].answer, exp |-> now + Ttl]
        BY <2>1 DEF IInv, TypeOK
      <3>2. ASSUME NEW s \in Queries, NEW i \in Matches[req[r].q],
                   (i \in req[r].answer[s]) # (i \in present)
            PROVE  now + Ttl <= changed[i] + Ttl + Span
        <4>1. req[r].since <= changed[i] /\ now <= req[r].since + Span
          BY <3>2 DEF IInv, Read1
        <4>2. i \in Items /\ changed[i] \in Nat /\ now \in Nat /\ req[r].since \in Nat
          BY <1>0 DEF IInv, TypeOK, Request
        <4> QED BY <4>1, <4>2
      <3> QED BY <3>1, <3>2 DEF Entry1, IInv, TypeOK
    <2>2. CASE k # KeyOf[req[r].q]
      BY <2>2 DEF IInv, TypeOK, Entry1
    <2> QED BY <2>1, <2>2
  <1> QED BY <1>1, <1>2, <1>3 DEF IInv

LEMMA FailInv ==
    ASSUME IInv, NEW r \in Readers, Fail(r)
    PROVE  IInv'
  BY ReadCacheAssumption DEF Fail, IInv, TypeOK, Read1, Entry1, At, Idle, Nothing, Request, Answer

\* A change makes answers wrong from now on: whoever has read the item began no
\* later than now, and what is cached goes within a life time.
LEMMA ChangeInv ==
    ASSUME IInv, NEW j \in Items, Change(j)
    PROVE  IInv'
  <1> USE ReadCacheAssumption DEF Change
  <1>1. TypeOK' /\ \A i \in Items : changed'[i] <= now'
    BY DEF IInv, TypeOK
  <1>2. ASSUME NEW i \in Items, i # j
        PROVE  (i \in present' <=> i \in present) /\ changed'[i] = changed[i]
    BY <1>2 DEF IInv, TypeOK
  <1>3. changed'[j] = now /\ now \in Nat
    BY DEF IInv, TypeOK
  <1>4. \A r \in Readers : Read1(r)'
    BY <1>2, <1>3 DEF IInv, TypeOK, Read1, At
  <1>5. \A k \in Keys : Entry1(k)'
    <2> SUFFICES ASSUME NEW k \in Keys, cache[k] # Null PROVE Entry1(k)'
      BY DEF Entry1
    <2>1. cache[k] \in Entry
      BY DEF IInv, TypeOK
    <2>2. cache[k].exp \in Nat /\ cache[k].exp <= now + Ttl /\ now < cache[k].exp
      BY <2>1 DEF IInv, Entry1, Entry
    <2>3. ASSUME NEW s \in Queries, NEW i \in Matches[cache[k].q],
                 (i \in cache[k].answer[s]) # (i \in present')
          PROVE  cache[k].exp <= changed'[i] + Ttl + Span
      <3>0. i \in Items
        BY <2>1 DEF Entry
      <3>1. CASE i = j
        BY <3>1, <2>2, <1>3
      <3>2. CASE i # j
        BY <3>0, <3>2, <2>3, <1>2 DEF IInv, Entry1
      <3> QED BY <3>1, <3>2
    <2> QED BY <2>2, <2>3 DEF Entry1
  <1> QED BY <1>1, <1>4, <1>5 DEF IInv

LEMMA TickInv ==
    ASSUME IInv, Tick
    PROVE  IInv'
  <1> USE ReadCacheAssumption DEF Tick
  <1>0. now \in Nat /\ now' = now + 1
    BY DEF IInv, TypeOK
  <1>1. TypeOK' /\ \A i \in Items : changed'[i] <= now'
    BY <1>0 DEF IInv, TypeOK
  <1>2. \A r \in Readers : Read1(r)'
    BY <1>0 DEF IInv, TypeOK, Read1, At, Request
  <1>3. \A k \in Keys : Entry1(k)'
    <2> SUFFICES ASSUME NEW k \in Keys, cache'[k] # Null PROVE Entry1(k)'
      BY DEF Entry1
    <2>1. cache'[k] = cache[k] /\ cache[k] # Null /\ ~(cache[k].exp <= now')
      OBVIOUS
    <2>2. cache[k].exp \in Nat
      BY <2>1 DEF IInv, TypeOK, Entry
    <2> QED BY <1>0, <2>1, <2>2 DEF IInv, Entry1
  <1> QED BY <1>1, <1>2, <1>3 DEF IInv

LEMMA NextInv == IInv /\ [Next]_vars => IInv'
  <1> SUFFICES ASSUME IInv, [Next]_vars PROVE IInv'
    OBVIOUS
  <1>1. CASE Next
    BY <1>1, MissInv, ReadInv, StoreInv, FailInv, ChangeInv, TickInv DEF Next
  <1>2. CASE UNCHANGED vars
    BY <1>2 DEF vars, IInv, TypeOK, Read1, Entry1, At
  <1> QED BY <1>1, <1>2

LEMMA Invariant == Spec => []IInv
  BY InitInv, NextInv, PTL DEF Spec

----------------------------------------------------------------------------
\* Every reachable state is well typed.
THEOREM TypeCorrect == Spec => []TypeOK
  <1>1. IInv => TypeOK
    BY DEF IInv
  <1> QED BY <1>1, Invariant, PTL

\* Whatever the cache answers has been true within a life time and a request, for
\* any number of requests that overwrite each other's entries (search,
\* getDashboard).
THEOREM StaleIsBounded == Spec => []StaleBounded
  <1>1. IInv => StaleBounded
    <2> SUFFICES ASSUME IInv, NEW k \in Keys, cache[k] # Null,
                        NEW s \in Queries, NEW i \in Matches[cache[k].q],
                        (i \in cache[k].answer[s]) # (i \in present)
                 PROVE  now < changed[i] + Ttl + Span
      BY DEF StaleBounded
    <2>1. cache[k] \in Entry /\ now \in Nat
      BY DEF IInv, TypeOK
    <2>2. cache[k].exp \in Nat /\ i \in Items /\ changed[i] \in Nat
      BY <2>1, ReadCacheAssumption DEF Entry, IInv, TypeOK
    <2>3. now < cache[k].exp /\ cache[k].exp <= changed[i] + Ttl + Span
      BY DEF IInv, Entry1
    <2> QED BY <2>1, <2>2, <2>3, ReadCacheAssumption
  <1> QED BY <1>1, Invariant, PTL
=============================================================================
