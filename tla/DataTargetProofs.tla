-------------------------- MODULE DataTargetProofs --------------------------
(***************************************************************************)
(* Proofs about DataTarget, for any memory, any requests that stay inside  *)
(* it, any order in which memcpy moves the bytes and any changes by other  *)
(* threads.                                                                *)
(***************************************************************************)
EXTENDS DataTarget, TLAPS

(* A read copies first and a write counts first. *)
OrderInv ==
  /\ pc = "copying" => op \in {"read", "write"}
  /\ pc = "copying" /\ op = "read" => count = NotSet
  /\ pc = "copying" /\ op = "write" => count = length
  /\ pc = "counting" => op \in {"read", "write"} /\ count = NotSet
  /\ pc = "counting" /\ op = "read" => todo = {}
  /\ op = "write" /\ count = NotSet => todo = Offsets(length)

(* The bytes that have been moved are ones the memory has had. *)
MovedInv ==
  pc # "idle" \/ hr = "S_OK" =>
    \A i \in Offsets(length) \ todo : buffer[i] \in held[first + i]

(* What is in memory now has been held while a request is in progress. *)
HeldInv == pc # "idle" => \A a \in Addresses : mem[a] \in held[a]

AnswerInv ==
  op \in Moves /\ pc = "idle" => (hr = "S_OK" <=> todo = {} /\ count = length)

IInv == TypeOK /\ OrderInv /\ MovedInv /\ HeldInv /\ AnswerInv

USE DEF memory, request, Moves

-----------------------------------------------------------------------------
LEMMA Initial == Init => IInv
<1> SUFFICES ASSUME Init PROVE IInv
  OBVIOUS
<1>1. Offsets(0) = {}
  BY DEF Offsets
<1>2. NoBuffer \in [Offsets(0) -> Values]
  BY <1>1 DEF NoBuffer
<1>3. TypeOK
  BY <1>1, <1>2, BoundsAssumption DEF Init, TypeOK
<1>4. OrderInv /\ MovedInv /\ HeldInv /\ AnswerInv
  BY DEF Init, OrderInv, MovedInv, HeldInv, AnswerInv
<1> QED
  BY <1>3, <1>4 DEF IInv

-----------------------------------------------------------------------------
(* A request comes. *)

LEMMA RequestStep ==
  ASSUME IInv, NEW n \in 0..MaxLength, NEW a \in InRange(n),
         NEW b \in [Offsets(n) -> Values],
         \/ Request("read", a, n, b, "copying")
         \/ Request("write", a, n, b, "counting")
  PROVE  IInv'
<1> USE DEF IInv
<1>1. a \in Nat /\ \A i \in Offsets(n) : a + i \in Addresses
  <2>1. a \in Addresses /\ a \in Nat
    BY AddressesAssumption DEF InRange
  <2>2. ASSUME NEW i \in Offsets(n)
        PROVE  a + i \in Addresses
    <3>1. PICK c \in Addresses : i = c - a
      BY DEF InRange
    <3>2. c \in Nat
      BY AddressesAssumption
    <3> QED
      BY <2>1, <3>1, <3>2
  <2> QED
    BY <2>1, <2>2
<1>2. /\ first' = a /\ length' = n /\ buffer' = b /\ todo' = Offsets(n)
      /\ count' = NotSet /\ hr' = "none"
      /\ held' = [x \in Addresses |-> {mem[x]}]
      /\ UNCHANGED <<mem, access, changes>>
      /\ \/ op' = "read" /\ pc' = "copying"
         \/ op' = "write" /\ pc' = "counting"
  BY DEF Request
<1>3. held' \in [Addresses -> SUBSET Values]
  BY <1>2 DEF TypeOK
<1>4. TypeOK'
  BY <1>1, <1>2, <1>3 DEF TypeOK, Requests
<1>5. OrderInv' /\ AnswerInv'
  BY <1>2 DEF OrderInv, AnswerInv
<1>6. MovedInv' /\ HeldInv'
  BY <1>2 DEF MovedInv, HeldInv
<1> QED
  BY <1>4, <1>5, <1>6

LEMMA ImmediateStep ==
  ASSUME IInv, NEW kind \in Requests, NEW answer,
         AnswerAtOnce(kind, answer),
         kind \in Moves => answer # "S_OK",
         answer \in {"S_OK", "E_POINTER", "E_INVALIDARG", "E_NOTIMPL", "error"},
         access' \in [Addresses -> Accesses],
         UNCHANGED <<mem, held, changes>>
  PROVE  IInv'
<1> USE DEF IInv
<1>1. Offsets(0) = {} /\ NoBuffer \in [Offsets(0) -> Values]
  BY DEF Offsets, NoBuffer
<1>2. /\ pc = "idle" /\ pc' = "idle" /\ op' = kind
      /\ length' = 0 /\ buffer' = NoBuffer /\ todo' = {}
      /\ count' = NotSet /\ hr' = answer
      /\ UNCHANGED <<mem, held, changes, first>>
  BY DEF AnswerAtOnce
<1>3. TypeOK'
  BY <1>1, <1>2, BoundsAssumption DEF TypeOK
<1>4. OrderInv' /\ MovedInv' /\ HeldInv' /\ AnswerInv'
  BY <1>1, <1>2 DEF OrderInv, MovedInv, HeldInv, AnswerInv, NotSet
<1> QED
  BY <1>3, <1>4

(* Allocating and freeing change what may be done with memory, not what is in it,
   and end as requests that move no bytes. *)
LEMMA PagesStep ==
  ASSUME IInv, NEW area \in SUBSET Addresses, NEW p \in Accesses,
         AllocVirtual(area, p) \/ FreeVirtual(area)
  PROVE  IInv'
<1>1. access' \in [Addresses -> Accesses]
  BY DEF AllocVirtual, FreeVirtual, SetPages, IInv, TypeOK, Accesses
<1>2. UNCHANGED <<mem, held, changes>>
  BY DEF AllocVirtual, FreeVirtual
<1>3. CASE AllocVirtual(area, p)
  BY <1>1, <1>2, <1>3, ImmediateStep DEF AllocVirtual, Requests
<1>4. CASE FreeVirtual(area)
  BY <1>1, <1>2, <1>4, ImmediateStep DEF FreeVirtual, Requests
<1> QED
  BY <1>3, <1>4

LEMMA AnswersStep ==
  ASSUME IInv,
         \/ \E kind \in Moves \cup Descriptions \cup {"alloc"} : Refuse(kind)
         \/ \E kind \in {"alloc", "free", "base"} : SystemFails(kind)
         \/ \E kind \in Descriptions : Describe(kind)
         \/ GetThreadContext \/ NoThreadData \/ NoControl
  PROVE  IInv'
<1>1. UNCHANGED memory
  BY DEF Refuse, SystemFails, Describe, GetThreadContext, NoThreadData, NoControl
<1>2. access' \in [Addresses -> Accesses]
  BY <1>1 DEF IInv, TypeOK
<1> DEFINE ExistsAnswer ==
      \E kind \in Requests :
        \E answer \in {"S_OK", "E_POINTER", "E_INVALIDARG", "E_NOTIMPL", "error"} :
          AnswerAtOnce(kind, answer) /\ (kind \in Moves => answer # "S_OK")
<1>3. ExistsAnswer
  <2>1. ASSUME NEW kind \in Moves \cup Descriptions \cup {"alloc"}, Refuse(kind)
        PROVE  ExistsAnswer
    BY <2>1 DEF Refuse, Requests
  <2>2. ASSUME NEW kind \in {"alloc", "free", "base"}, SystemFails(kind)
        PROVE  ExistsAnswer
    BY <2>2 DEF SystemFails, Requests, Descriptions
  <2>3. ASSUME NEW kind \in Descriptions, Describe(kind)
        PROVE  ExistsAnswer
    BY <2>3 DEF Describe, Requests, Descriptions
  <2>4. CASE GetThreadContext
    BY <2>4 DEF GetThreadContext, Requests
  <2>5. CASE NoThreadData \/ NoControl
    BY <2>5 DEF NoThreadData, NoControl, Requests
  <2> QED
    BY <2>1, <2>2, <2>3, <2>4, <2>5
<1> QED
  BY <1>1, <1>2, <1>3, ImmediateStep

-----------------------------------------------------------------------------
(* memcpy moves a byte. *)

LEMMA CopyStep ==
  ASSUME IInv, NEW i \in todo, CopyByte(i)
  PROVE  IInv'
<1> USE DEF IInv
<1>1. /\ pc = "copying" /\ i \in Offsets(length) /\ todo' = todo \ {i}
      /\ UNCHANGED <<access, request, pc, count, hr, changes>>
  BY DEF CopyByte, TypeOK
<1>2. first + i \in Addresses
  BY <1>1 DEF TypeOK
<1>3. CASE op = "read"
  <2>1. /\ buffer' = [buffer EXCEPT ![i] = mem[first + i]]
        /\ UNCHANGED <<mem, held>>
    BY <1>3 DEF CopyByte
  <2>2. mem[first + i] \in Values
    BY <1>2 DEF TypeOK
  <2>3. TypeOK'
    BY <1>1, <2>1, <2>2 DEF TypeOK
  <2>4. OrderInv' /\ AnswerInv' /\ HeldInv'
    BY <1>1, <1>3, <2>1 DEF OrderInv, AnswerInv, HeldInv
  <2>5. MovedInv'
    <3>1. mem[first + i] \in held[first + i]
      BY <1>1, <1>2 DEF HeldInv
    <3> QED
      BY <1>1, <2>1, <3>1 DEF MovedInv, TypeOK
  <2> QED
    BY <2>3, <2>4, <2>5
<1>4. CASE op = "write"
  <2> DEFINE x == first + i
             v == buffer[i]
  <2>1. /\ mem' = [mem EXCEPT ![x] = v]
        /\ held' = [held EXCEPT ![x] = held[x] \cup {v}]
        /\ UNCHANGED buffer
    BY <1>4 DEF CopyByte
  <2>2. v \in Values /\ x \in Addresses
    BY <1>1, <1>2 DEF TypeOK
  <2>3. \A a \in Addresses : held[a] \subseteq held'[a] /\ (a = x => v \in held'[a])
    <3> HIDE DEF x, v
    <3> QED
      BY <2>1, <2>2 DEF TypeOK
  <2>4. mem' \in [Addresses -> Values] /\ held' \in [Addresses -> SUBSET Values]
    <3> HIDE DEF x, v
    <3> QED
      BY <2>1, <2>2 DEF TypeOK
  <2>5. TypeOK'
    BY <1>1, <2>1, <2>4 DEF TypeOK
  <2>6. OrderInv' /\ AnswerInv'
    <3>1. count # NotSet
      BY <1>1, <1>4 DEF OrderInv, TypeOK, NotSet
    <3> QED
      BY <1>1, <1>4, <3>1 DEF OrderInv, AnswerInv
  <2>7. HeldInv'
    <3>1. \A a \in Addresses : mem'[a] = IF a = x THEN v ELSE mem[a]
      <4> HIDE DEF x, v
      <4> QED
        BY <2>1, <2>2 DEF TypeOK
    <3> QED
      BY <1>1, <2>3, <3>1 DEF HeldInv
  <2>8. MovedInv'
    <3> SUFFICES ASSUME NEW j \in Offsets(length) \ todo'
                 PROVE  buffer[j] \in held'[first + j]
      BY <1>1, <2>1 DEF MovedInv
    <3>1. first + j \in Addresses
      BY DEF TypeOK
    <3>2. CASE j = i
      BY <2>2, <2>3, <3>2
    <3>3. CASE j # i
      <4>1. buffer[j] \in held[first + j]
        BY <1>1, <3>3 DEF MovedInv
      <4> QED
        BY <2>3, <3>1, <4>1
    <3> QED
      BY <3>2, <3>3
  <2> QED
    BY <2>5, <2>6, <2>7, <2>8
<1> QED
  BY <1>1, <1>3, <1>4 DEF OrderInv

-----------------------------------------------------------------------------
(* The rest of a request. *)

LEMMA EndSteps ==
  ASSUME IInv,
         \/ \E i \in todo : AccessViolation(i) \/ GuardViolation(i)
         \/ Copied \/ SetCount \/ CountViolation
  PROVE  IInv'
<1> USE DEF IInv
<1>1. UNCHANGED <<memory, request, buffer, todo>> /\ pc # "idle"
  BY DEF AccessViolation, GuardViolation, Copied, SetCount, CountViolation, Answer
<1>2. CASE (\E i \in todo : AccessViolation(i) \/ GuardViolation(i)) \/ CountViolation
  <2>1. pc' = "idle" /\ hr' \in {"E_ACCESSDENIED", "exception"} /\ UNCHANGED count
    BY <1>2 DEF AccessViolation, GuardViolation, CountViolation, Answer
  <2>2. ~(todo = {} /\ count = length)
    <3>1. CASE CountViolation
      BY <3>1 DEF CountViolation, OrderInv, TypeOK, NotSet
    <3> QED
      BY <1>2, <3>1
  <2> QED
    BY <1>1, <2>1, <2>2 DEF TypeOK, OrderInv, MovedInv, HeldInv, AnswerInv
<1>3. CASE Copied
  <2>1. pc = "copying" /\ todo = {} /\ UNCHANGED count
    BY <1>3 DEF Copied
  <2>2. CASE count # NotSet
    <3>1. pc' = "idle" /\ hr' = "S_OK"
      BY <1>3, <2>2 DEF Copied, Answer
    <3>2. count = length
      BY <2>1, <2>2 DEF OrderInv
    <3> QED
      BY <1>1, <2>1, <3>1, <3>2 DEF TypeOK, OrderInv, MovedInv, HeldInv, AnswerInv
  <2>3. CASE count = NotSet
    <3>1. pc' = "counting" /\ UNCHANGED hr
      BY <1>3, <2>3 DEF Copied
    <3> QED
      BY <1>1, <2>1, <2>3, <3>1 DEF TypeOK, OrderInv, MovedInv, HeldInv, AnswerInv
  <2> QED
    BY <2>2, <2>3
<1>4. CASE SetCount
  <2>1. pc = "counting" /\ count' = length /\ length \in 0..MaxLength
    BY <1>4 DEF SetCount, TypeOK
  <2>2. count' # NotSet /\ count' \in {NotSet} \cup 0..MaxLength
    BY <2>1 DEF NotSet
  <2>3. CASE todo = {}
    <3>1. pc' = "idle" /\ hr' = "S_OK"
      BY <1>4, <2>3 DEF SetCount, Answer
    <3> QED
      BY <1>1, <2>1, <2>2, <2>3, <3>1 DEF TypeOK, OrderInv, MovedInv, HeldInv, AnswerInv
  <2>4. CASE todo # {}
    <3>1. pc' = "copying" /\ UNCHANGED hr
      BY <1>4, <2>4 DEF SetCount
    <3>2. op = "write"
      BY <2>1, <2>4 DEF OrderInv
    <3> QED
      BY <1>1, <2>1, <2>2, <3>1, <3>2 DEF TypeOK, OrderInv, MovedInv, HeldInv, AnswerInv
  <2> QED
    BY <2>3, <2>4
<1> QED
  BY <1>2, <1>3, <1>4

(* Other threads: what they store is held, and they take nothing back. *)
LEMMA OthersStep ==
  ASSUME IInv, Others
  PROVE  IInv'
<1> USE DEF IInv
<1>1. UNCHANGED <<request, pc, buffer, todo, count, hr>>
  BY DEF Others, Store, Protect
<1>2. changes' \in 0..MaxChanges
  BY BoundsAssumption DEF Others, Store, Protect, TypeOK
<1>3. OrderInv' /\ AnswerInv'
  BY <1>1 DEF OrderInv, AnswerInv
<1>4. ASSUME NEW a \in Addresses, NEW v \in Values, Store(a, v)
      PROVE  IInv'
  <2>1. /\ mem' = [mem EXCEPT ![a] = v] /\ UNCHANGED access
        /\ held' = [held EXCEPT ![a] = held[a] \cup {v}]
    BY <1>4 DEF Store
  <2>2. /\ mem' \in [Addresses -> Values] /\ held' \in [Addresses -> SUBSET Values]
        /\ \A x \in Addresses : held[x] \subseteq held'[x]
        /\ \A x \in Addresses : mem[x] \in held[x] => mem'[x] \in held'[x]
    BY <2>1 DEF TypeOK
  <2>3. TypeOK'
    BY <1>1, <1>2, <2>1, <2>2 DEF TypeOK
  <2>4. MovedInv' /\ HeldInv'
    BY <1>1, <2>2 DEF MovedInv, HeldInv, TypeOK
  <2> QED
    BY <1>3, <2>3, <2>4
<1>5. ASSUME NEW a \in Addresses, NEW p \in Accesses, Protect(a, p)
      PROVE  IInv'
  <2>1. access' \in [Addresses -> Accesses] /\ UNCHANGED <<mem, held>>
    BY <1>5 DEF Protect, TypeOK
  <2>2. TypeOK'
    BY <1>1, <1>2, <2>1 DEF TypeOK
  <2>3. MovedInv' /\ HeldInv'
    BY <1>1, <2>1 DEF MovedInv, HeldInv
  <2> QED
    BY <1>3, <2>2, <2>3
<1> QED
  BY <1>4, <1>5 DEF Others

-----------------------------------------------------------------------------
LEMMA Inductive == IInv /\ [Next]_vars => IInv'
<1> SUFFICES ASSUME IInv, [Next]_vars PROVE IInv'
  OBVIOUS
<1>1. ASSUME NEW n \in 0..MaxLength, NEW a \in InRange(n),
             ReadVirtual(a, n) \/ WriteVirtual(a, n)
      PROVE  IInv'
  BY <1>1, RequestStep DEF ReadVirtual, WriteVirtual
<1>2. ASSUME NEW i \in todo, CopyByte(i)
      PROVE  IInv'
  BY <1>2, CopyStep
<1>3. CASE \/ \E i \in todo : AccessViolation(i) \/ GuardViolation(i)
           \/ Copied \/ SetCount \/ CountViolation
  BY <1>3, EndSteps
<1>4. CASE Others
  BY <1>4, OthersStep
<1>5. ASSUME NEW area \in SUBSET Addresses, NEW p \in Accesses,
             AllocVirtual(area, p) \/ FreeVirtual(area)
      PROVE  IInv'
  BY <1>5, PagesStep
<1>6. CASE UNCHANGED vars
  BY <1>6 DEF IInv, TypeOK, OrderInv, MovedInv, HeldInv, AnswerInv, vars
<1>7. CASE \/ \E kind \in Moves \cup Descriptions \cup {"alloc"} : Refuse(kind)
           \/ \E kind \in {"alloc", "free", "base"} : SystemFails(kind)
           \/ \E kind \in Descriptions : Describe(kind)
           \/ GetThreadContext \/ NoThreadData \/ NoControl
  BY <1>7, AnswersStep
<1>8. "none" \in Accesses
  BY DEF Accesses
<1> QED
  BY <1>1, <1>2, <1>3, <1>4, <1>5, <1>6, <1>7, <1>8 DEF Next, Provider

(* Order of copying and counting, what has been moved, what memory has held
   and what an S_OK stands for, in every reachable state. *)
THEOREM Invariance == Spec => []IInv
<1> HIDE DEF Init
<1> QED
  BY Initial, Inductive, PTL DEF Spec

(* The variables keep their types. *)
THEOREM TypeCorrect == Spec => []TypeOK
<1>1. IInv => TypeOK
  BY DEF IInv
<1> QED
  BY <1>1, Invariance, PTL

(* An S_OK of ReadVirtual or WriteVirtual is for all the bytes, each of which
   the memory has had at its address, and for their count; and a request that
   has moved less is refused. *)
THEOREM AnsweredAllOrNothing == Spec => []AllOrNothing
<1>1. IInv => AllOrNothing
  BY DEF IInv, AnswerInv, MovedInv, AllOrNothing
<1> QED
  BY <1>1, Invariance, PTL

(* WriteVirtual writes no byte before the count has been set. *)
THEOREM CountsComeFirst == Spec => []CountComesFirst
<1>1. IInv => CountComesFirst
  BY DEF IInv, OrderInv, CountComesFirst
<1> QED
  BY <1>1, Invariance, PTL
=============================================================================
