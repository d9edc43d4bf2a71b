-------------------------- MODULE ValueWalkProofs --------------------------
(***************************************************************************)
(* Proofs about ValueWalk, for any heap, any arguments, any room on the    *)
(* stack and any stores of other threads.                                  *)
(*                                                                         *)
(* What is dumped is compared with functions defined by recursion: Missing *)
(* over the parts, UpTo over what an object holds, Images over the depth.  *)
(* Each is shown to exist and to be the only one of its kind, by induction *)
(* over a set of naturals, and from then on only its equations are used.   *)
(*                                                                         *)
(* ValuesWhole then rests on a balance: what the activations on the stack  *)
(* still have to dump is what the parts dumped so far leave missing.       *)
(* ValuesExact rests on an account of those parts: the pieces each         *)
(* activation has contributed, joined from the bottom of the stack up.     *)
(***************************************************************************)
EXTENDS ValueWalk, SequenceTheorems, WellFoundedInduction, TLAPS

Activations == [of : Objects, reached : Nat]

(* A reference keeps its one referent, so that dump_reference always has one
   to go to. *)
ReferencesHold ==
  \A o \in Objects : heap[o].kind = "reference" => Len(heap[o].items) = 1

IInv == TypeOK /\ ReferencesHold

-----------------------------------------------------------------------------
(* The stack. *)

LEMMA TopType ==
  ASSUME TypeOK, pc = "value"
  PROVE  /\ Len(stack) \in Nat \ {0} /\ top \in Activations
         /\ top.of \in Objects /\ top.reached \in Nat
         /\ cell \in Cells
<1>1. stack \in Seq(Activations) /\ Len(stack) \in 1..MaxStack
  BY DEF TypeOK, Activations
<1>2. Len(stack) \in Nat \ {0} /\ top \in Activations
  BY <1>1, BoundsAssumption DEF top
<1>3. top.of \in Objects /\ top.reached \in Nat
  BY <1>2 DEF Activations
<1> QED
  BY <1>2, <1>3 DEF TypeOK, cell

LEMMA BelowType ==
  ASSUME TypeOK, pc = "value"
  PROVE  below \in Seq(Activations) /\ Len(below) = Len(stack) - 1
<1>1. stack \in Seq(Activations) /\ Len(stack) \in Nat \ {0}
  BY TopType DEF TypeOK, Activations
<1> DEFINE n == Len(stack) - 1
<1>2. n \in Nat /\ \A i \in 1..n : stack[i] \in Activations
  BY <1>1
<1>3. /\ SubSeq(stack, 1, n) \in Seq(Activations)
      /\ Len(SubSeq(stack, 1, n)) = IF 1 <= n THEN n - 1 + 1 ELSE 0
  <2> HIDE DEF n
  <2> QED
    BY <1>2, SubSeqProperties
<1>4. Len(SubSeq(stack, 1, n)) = n
  <2> HIDE DEF n
  <2> QED
    BY <1>2, <1>3
<1> QED
  BY <1>3, <1>4 DEF below

LEMMA PushType ==
  ASSUME TypeOK, pc = "value", Len(stack) < MaxStack,
         NEW r \in Nat, NEW o \in Objects
  PROVE  LET s == Append([stack EXCEPT ![Len(stack)].reached = r], Activation(o))
         IN  s \in Seq(Activations) /\ Len(s) \in 1..MaxStack
<1> DEFINE t == [top EXCEPT !.reached = r]
           s == [stack EXCEPT ![Len(stack)] = t]
<1>1. t \in Activations
  BY TopType DEF Activations
<1>2. s \in Seq(Activations) /\ Len(s) = Len(stack)
  <2>1. stack \in Seq(Activations) /\ Len(stack) \in Nat \ {0}
    BY TopType DEF TypeOK, Activations
  <2> HIDE DEF t
  <2> QED
    BY <1>1, <2>1, ExceptSeq
<1>3. Activation(o) \in Activations
  BY DEF Activation, Activations
<1>4. s = [stack EXCEPT ![Len(stack)].reached = r]
  BY DEF top
<1>5. Append(s, Activation(o)) \in Seq(Activations)
      /\ Len(Append(s, Activation(o))) = Len(stack) + 1
  <2> HIDE DEF s
  <2> QED
    BY <1>2, <1>3, AppendProperties
<1>6. Len(stack) + 1 \in 1..MaxStack
  BY TopType, BoundsAssumption
<1> QED
  BY <1>4, <1>5, <1>6

-----------------------------------------------------------------------------
(* The steps of the machine. *)

LEMMA PartType ==
  ASSUME TypeOK, NEW is \in {"null", "array", "string", "raw", "unknown"},
         NEW size \in Nat
  PROVE  Append(part, [is |-> is, size |-> size]) \in Seq(Parts)
<1>1. [is |-> is, size |-> size] \in Parts
  BY DEF Parts
<1> QED
  BY <1>1 DEF TypeOK

LEMMA ReturnStep ==
  ASSUME IInv, pc = "value", part' \in Seq(Parts), NEW dumped \in Seq(Parts),
         Return(dumped)
  PROVE  IInv'
<1> USE DEF IInv
<1>1. UNCHANGED <<heap, args, failed, lostIn, stores>> /\ stack' = below
  BY DEF Return
<1>2. below \in Seq(Activations) /\ Len(below) = Len(stack) - 1
      /\ Len(stack) \in 1..MaxStack
  BY BelowType DEF TypeOK
<1>3. ReferencesHold'
  BY <1>1 DEF ReferencesHold
<1>4. CASE below = <<>>
  <2>1. pc' = "frame" /\ values' = Append(values, dumped)
    BY <1>4 DEF Return
  <2>2. values' \in Seq(Seq(Parts))
    BY <2>1 DEF TypeOK
  <2> QED
    BY <1>1, <1>2, <1>3, <2>1, <2>2 DEF TypeOK, Activations
<1>5. CASE below # <<>>
  <2>1. UNCHANGED <<pc, values>>
    BY <1>5 DEF Return
  <2>2. Len(below) \in 1..MaxStack
    BY <1>2, <1>5, BoundsAssumption, EmptySeq
  <2> QED
    BY <1>1, <1>2, <1>3, <2>1, <2>2 DEF TypeOK, Activations
<1> QED
  BY <1>4, <1>5

LEMMA CallStep ==
  ASSUME IInv, pc = "value", top.reached < Len(cell.items), Call
  PROVE  IInv'
<1> USE DEF IInv
<1> DEFINE o == cell.items[top.reached + 1]
           s == Append([stack EXCEPT ![Len(stack)].reached = top.reached + 1],
                       Activation(o))
<1>1. o \in Objects
  <2>1. cell.items \in Seq(Objects) /\ top.reached + 1 \in 1..Len(cell.items)
    BY TopType DEF Cells
  <2> QED
    BY <2>1
<1>2. s \in Seq(Activations) /\ Len(s) \in 1..MaxStack
  BY <1>1, TopType, PushType DEF Call
<1>3. stack' = s /\ UNCHANGED <<heap, args, pc, part, values, failed, lostIn, stores>>
  BY DEF Call, top
<1>4. ReferencesHold'
  BY <1>3 DEF ReferencesHold
<1> HIDE DEF s
<1> QED
  BY <1>2, <1>3, <1>4 DEF TypeOK, Activations

LEMMA LeafSteps ==
  ASSUME IInv,
         \/ dump_null \/ dump_string \/ dump_object_raw
         \/ dump_matrix \/ dump_empty_array \/ EndHolder
  PROVE  IInv'
<1> USE DEF IInv
<1>1. pc = "value"
  BY DEF dump_null, dump_string, dump_object_raw, dump_matrix, dump_empty_array,
     EndHolder, At
<1>2. part' \in Seq(Parts)
  <2>1. CASE dump_null
    BY <2>1, PartType DEF dump_null, Emit
  <2>2. CASE dump_string
    BY <2>2, PartType DEF dump_string, Emit
  <2>3. CASE dump_object_raw
    <3>1. (IF cell.size > ULONG_MAX THEN 0 ELSE cell.size) \in Nat
      BY <1>1, TopType DEF Cells
    <3> QED
      BY <2>3, <3>1, PartType DEF dump_object_raw, Emit
  <2>4. CASE dump_matrix
    BY <2>4, PartType DEF dump_matrix, Emit
  <2>5. CASE dump_empty_array
    BY <2>5, PartType DEF dump_empty_array, Emit
  <2>6. CASE EndHolder
    BY <2>6 DEF EndHolder, TypeOK
  <2> QED
    BY <2>1, <2>2, <2>3, <2>4, <2>5, <2>6
<1>3. \E dumped \in Seq(Parts) : Return(dumped)
  BY <1>2 DEF dump_null, dump_string, dump_object_raw, dump_matrix,
     dump_empty_array, EndHolder, TypeOK
<1> QED
  BY <1>1, <1>2, <1>3, ReturnStep

LEMMA HolderSteps ==
  ASSUME IInv, dump_reference \/ dump_element \/ dump_array
  PROVE  IInv'
<1> USE DEF IInv
<1>1. CASE dump_reference
  <2>1. pc = "value" /\ cell.kind = "reference" /\ top.reached = 0 /\ Call
    BY <1>1 DEF dump_reference, At
  <2>2. Len(cell.items) = 1
    BY <2>1, TopType DEF ReferencesHold, cell
  <2> QED
    BY <2>1, <2>2, CallStep
<1>2. CASE dump_element
  <2>1. pc = "value" /\ Call /\ top.reached \in 1..(Len(cell.items) - 1)
    BY <1>2 DEF dump_element
  <2>2. top.reached < Len(cell.items)
    BY <2>1, TopType DEF Cells
  <2> QED
    BY <2>1, <2>2, CallStep
<1>3. CASE dump_array
  <2> DEFINE s == Append([stack EXCEPT ![Len(stack)].reached = 1],
                         Activation(cell.items[1]))
  <2>1. /\ pc = "value" /\ cell.items # <<>> /\ Len(stack) < MaxStack
        /\ part' = Append(part, [is |-> "array", size |-> Len(cell.items)])
        /\ stack' = s
        /\ UNCHANGED <<heap, args, pc, values, failed, lostIn, stores>>
    BY <1>3 DEF dump_array, At, Emit
  <2>2. cell.items \in Seq(Objects)
    BY <2>1, TopType DEF Cells
  <2>3. cell.items[1] \in Objects /\ Len(cell.items) \in Nat
    BY <2>1, <2>2, EmptySeq
  <2>4. s \in Seq(Activations) /\ Len(s) \in 1..MaxStack
    BY <2>1, <2>3, PushType
  <2>5. part' \in Seq(Parts)
    BY <2>1, <2>3, PartType
  <2>6. ReferencesHold'
    BY <2>1 DEF ReferencesHold
  <2> HIDE DEF s
  <2> QED
    BY <2>1, <2>4, <2>5, <2>6 DEF TypeOK, Activations
<1> QED
  BY <1>1, <1>2, <1>3

LEMMA FrameSteps ==
  ASSUME IInv, BeginArgument \/ FrameDumped \/ FrameFails
  PROVE  IInv'
<1> USE DEF IInv
<1>1. UNCHANGED <<heap, args, values, failed, stores>>
  BY DEF BeginArgument, FrameDumped, FrameFails
<1>2. ReferencesHold'
  BY <1>1 DEF ReferencesHold
<1>3. CASE BeginArgument
  <2> DEFINE act == Activation(args[Argument])
  <2>1. args[Argument] \in Objects
    <3>1. args \in Seq(Objects) /\ values \in Seq(Seq(Parts))
      BY DEF TypeOK
    <3>2. Len(values) \in Nat /\ Len(args) \in Nat
      BY <3>1
    <3>3. Argument \in 1..Len(args)
      BY <1>3, <3>2 DEF BeginArgument, Argument
    <3> QED
      BY <3>1, <3>3
  <2>2. act \in Activations
    BY <2>1 DEF Activation, Activations
  <2>3. <<act>> \in Seq(Activations) /\ Len(<<act>>) = 1
    <3> HIDE DEF act
    <3> QED
      BY <2>2
  <2>4. /\ stack' = <<act>> /\ pc' = "value" /\ part' = <<>>
        /\ UNCHANGED lostIn
    BY <1>3 DEF BeginArgument
  <2> HIDE DEF act
  <2> QED
    BY <1>1, <1>2, <2>3, <2>4, BoundsAssumption DEF TypeOK, Activations
<1>4. CASE FrameDumped
  BY <1>1, <1>2, <1>4 DEF FrameDumped, TypeOK
<1>5. CASE FrameFails
  BY <1>1, <1>2, <1>5 DEF FrameFails, TypeOK
<1> QED
  BY <1>3, <1>4, <1>5

LEMMA FailureSteps ==
  ASSUME IInv, ValueFails \/ StringFails \/ Overflow
  PROVE  IInv'
<1> USE DEF IInv
<1>1. UNCHANGED <<heap, args, stores, part>>
  BY DEF ValueFails, StringFails, Overflow, LoseFrame
<1>2. ReferencesHold'
  BY <1>1 DEF ReferencesHold
<1>3. CASE ValueFails
  <2>1. UnknownValue \in Seq(Parts)
    <3>1. [is |-> "unknown", size |-> 0] \in Parts
      BY DEF Parts
    <3> QED
      BY <3>1 DEF UnknownValue
  <2>2. values' \in Seq(Seq(Parts))
    BY <1>3, <2>1 DEF ValueFails, TypeOK
  <2>3. failed' \in SUBSET Nat
    <3>1. values \in Seq(Seq(Parts)) /\ failed \in SUBSET Nat
      BY DEF TypeOK
    <3>2. Argument \in Nat
      BY <3>1 DEF Argument
    <3>3. failed' = failed \cup {Argument}
      BY <1>3 DEF ValueFails
    <3> QED
      BY <3>1, <3>2, <3>3
  <2> QED
    BY <1>1, <1>2, <1>3, <2>2, <2>3 DEF ValueFails, TypeOK
<1>4. CASE StringFails \/ Overflow
  BY <1>1, <1>2, <1>4 DEF StringFails, Overflow, LoseFrame, TypeOK
<1> QED
  BY <1>3, <1>4

(* A store changes neither what an object is nor how much it holds. *)
LEMMA StoreStep ==
  ASSUME IInv, NEW o \in Objects, NEW p \in Objects,
         NEW i \in 1..Len(heap[o].items), Store(o, i, p)
  PROVE  IInv'
<1> USE DEF IInv
<1> DEFINE items == [heap[o].items EXCEPT ![i] = p]
           c == [heap[o] EXCEPT !.items = items]
<1>1. heap[o] \in Cells /\ heap[o].items \in Seq(Objects)
  BY DEF TypeOK, Cells
<1>2. items \in Seq(Objects) /\ Len(items) = Len(heap[o].items)
  BY <1>1, ExceptSeq
<1>3. c \in Cells /\ c.kind = heap[o].kind /\ c.items = items
  <2> HIDE DEF items
  <2> QED
    BY <1>1, <1>2 DEF Cells
<1>4. heap' = [heap EXCEPT ![o] = c]
  BY DEF Store
<1>5. heap' \in [Objects -> Cells] /\ ReferencesHold'
  <2> HIDE DEF c, items
  <2> QED
    BY <1>2, <1>3, <1>4 DEF TypeOK, ReferencesHold
<1>6. stores' \in 0..MaxStores /\ UNCHANGED <<args, walkVars>>
  BY BoundsAssumption DEF Store, TypeOK
<1> QED
  BY <1>5, <1>6 DEF TypeOK, walkVars

-----------------------------------------------------------------------------
(* The invariant. *)

LEMMA Initial == Init => IInv
<1> SUFFICES ASSUME Init PROVE IInv
  OBVIOUS
<1>1. heap \in [Objects -> Cells] /\ ReferencesHold
  BY HeapsAssumption DEF Init, ReferencesHold
<1>2. args \in Seq(Objects)
  BY SignaturesAssumption DEF Init
<1> QED
  BY <1>1, <1>2, BoundsAssumption DEF Init, IInv, TypeOK

LEMMA Inductive == IInv /\ [Next]_vars => IInv'
<1> SUFFICES ASSUME IInv, [Next]_vars PROVE IInv'
  OBVIOUS
<1>1. CASE dump_frame
  BY <1>1, FrameSteps, LeafSteps, HolderSteps, FailureSteps
     DEF dump_frame, dump_object
<1>2. CASE Stores
  BY <1>2, StoreStep DEF Stores
<1>3. CASE UNCHANGED vars
  BY <1>3 DEF IInv, TypeOK, ReferencesHold, vars, walkVars
<1> QED
  BY <1>1, <1>2, <1>3 DEF Next

(* The recursion never runs off the end of what a value holds, and its stack
   stays within the room there is, whatever other threads store. *)
THEOREM TypeCorrect == Spec => []TypeOK
<1>1. IInv => TypeOK
  BY DEF IInv
<1> HIDE DEF Init
<1> QED
  BY <1>1, Initial, Inductive, PTL DEF Spec

-----------------------------------------------------------------------------
(* Induction over the naturals, for a set: that they are well-founded is a
   theorem of the library that needs no operator as a parameter. *)
LEMMA Induction ==
  ASSUME NEW T \in SUBSET Nat, 0 \in T, \A n \in T : n + 1 \in T
  PROVE  \A n \in Nat : n \in T
<1> DEFINE R == {p \in Nat \X Nat : p[1] < p[2]}
           U == Nat \ T
<1> SUFFICES ASSUME U # {} PROVE FALSE
  OBVIOUS
<1>1. PICK x \in U : \A y \in U : <<y, x>> \notin R
  <2>1. IsWellFoundedOn(R, Nat)
    BY NatLessThanWellFounded DEF OpToRel
  <2>2. U \subseteq Nat
    OBVIOUS
  <2> HIDE DEF R, U
  <2> QED
    BY <2>1, <2>2, WFMin
<1>2. x \in Nat /\ x # 0 /\ x - 1 \in Nat
  OBVIOUS
<1>3. <<x - 1, x>> \in R
  BY <1>2
<1>4. x - 1 \notin U
  BY <1>1, <1>3
<1>5. x - 1 \in T
  BY <1>2, <1>4
<1> QED
  BY <1>2, <1>5

(* Two functions that agree at 0, and at each number if at the one before,
   are the same. *)
LEMMA SameRecursion ==
  ASSUME NEW n \in Nat, NEW f, NEW g, DOMAIN f = 0..n, DOMAIN g = 0..n,
         f = [i \in 0..n |-> f[i]], g = [i \in 0..n |-> g[i]],
         f[0] = g[0],
         \A i \in 1..n : f[i - 1] = g[i - 1] => f[i] = g[i]
  PROVE  f = g
<1> DEFINE T == {i \in Nat : i <= n => f[i] = g[i]}
<1>1. \A i \in Nat : i \in T
  <2>1. 0 \in T
    OBVIOUS
  <2>2. ASSUME NEW i \in T PROVE i + 1 \in T
    <3> SUFFICES ASSUME i + 1 <= n PROVE f[i + 1] = g[i + 1]
      OBVIOUS
    <3>1. i + 1 \in 1..n /\ (i + 1) - 1 = i /\ f[i] = g[i]
      OBVIOUS
    <3> HIDE DEF T
    <3> QED
      BY <3>1
  <2> HIDE DEF T
  <2>3. T \in SUBSET Nat
    BY DEF T
  <2> QED
    BY <2>1, <2>2, <2>3, Induction
<1>2. \A i \in 0..n : f[i] = g[i]
  BY <1>1
<1> QED
  BY <1>2

(* How many values follow a part. *)
Announced(p) == IF p.is = "array" THEN p.size ELSE 0

(* The equations of Missing. *)
Counts(parts, m) ==
  /\ m \in [0..Len(parts) -> Int]
  /\ m[0] = 1
  /\ \A n \in 1..Len(parts) : m[n] = m[n - 1] - 1 + Announced(parts[n])

(* Missing is what its equations say. *)
LEMMA MissingIs ==
  ASSUME NEW parts \in Seq(Parts), NEW m, Counts(parts, m)
  PROVE  Missing(parts) = m
<1> DEFINE L == Len(parts)
           D(g) == [n \in 0..L |->
                      IF n = 0 THEN 1
                      ELSE g[n - 1] - 1
                             + (IF parts[n].is = "array" THEN parts[n].size ELSE 0)]
           f == Missing(parts)
<1>1. L \in Nat
  OBVIOUS
<1>2. m = D(m)
  BY DEF Counts, Announced
<1>3. f = CHOOSE g : g = D(g)
  BY DEF Missing
<1>4. f = D(f)
  <2> HIDE DEF D, f
  <2> QED
    BY <1>2, <1>3
<1>5. /\ DOMAIN f = 0..L /\ f = [i \in 0..L |-> f[i]] /\ f[0] = 1
      /\ \A i \in 1..L : f[i] = f[i - 1] - 1 + Announced(parts[i])
  <2> HIDE DEF f
  <2>1. f = [n \in 0..L |->
               IF n = 0 THEN 1
               ELSE f[n - 1] - 1 + (IF parts[n].is = "array" THEN parts[n].size ELSE 0)]
    BY <1>4
  <2> HIDE DEF D
  <2> QED
    BY <1>1, <2>1 DEF Announced
<1>6. /\ DOMAIN m = 0..L /\ m = [i \in 0..L |-> m[i]] /\ m[0] = 1
      /\ \A i \in 1..L : m[i] = m[i - 1] - 1 + Announced(parts[i])
  BY DEF Counts
<1>7. \A i \in 1..L : f[i - 1] = m[i - 1] => f[i] = m[i]
  <2> HIDE DEF f, L, D
  <2> QED
    BY <1>5, <1>6
<1>8. f = m
  <2> HIDE DEF f, L, D
  <2> QED
    BY <1>1, <1>5, <1>6, <1>7, SameRecursion
<1> QED
  BY <1>8

-----------------------------------------------------------------------------
(* What an object holds, and the part it has itself, have their types. *)
LEMMA OwnType ==
  ASSUME NEW h \in [Objects -> Cells], NEW o \in Objects
  PROVE  Own(h, o) \in Seq(Parts) /\ Held(h, o) \in Seq(Objects)
<1>1. h[o] \in Cells /\ h[o].kind \in Kinds /\ h[o].items \in Seq(Objects)
      /\ h[o].size \in Nat
  BY DEF Cells
<1>2. ASSUME NEW is \in {"null", "array", "string", "raw"}, NEW size \in Nat
      PROVE  <<[is |-> is, size |-> size]>> \in Seq(Parts)
  <2>1. [is |-> is, size |-> size] \in Parts
    BY DEF Parts
  <2> QED
    BY <2>1
<1>3. Held(h, o) \in Seq(Objects)
  BY <1>1 DEF Held
<1>4. CASE h[o].kind = "reference"
  BY <1>4, <1>3 DEF Own
<1>5. CASE h[o].kind \in {"null", "string"}
  BY <1>5, <1>3, <1>2 DEF Own
<1>6. CASE h[o].kind = "matrix"
  BY <1>6, <1>3, <1>2 DEF Own
<1>7. CASE h[o].kind = "array"
  BY <1>7, <1>3, <1>1, <1>2 DEF Own
<1>8. CASE h[o].kind = "raw"
  BY <1>8, <1>3, <1>1, <1>2 DEF Own
<1> QED
  BY <1>1, <1>4, <1>5, <1>6, <1>7, <1>8 DEF Kinds

(* g is given by recursion. *)
Recurs(g, n, V, b, step) ==
  g \in [0..n -> V] /\ g[0] = b /\ \A i \in 1..n : g[i] = step[i][g[i - 1]]

(* A function given at 0, and at each number from the one before, exists. *)
LEMMA RecursionExists ==
  ASSUME NEW V, NEW b \in V, NEW n \in Nat, NEW step \in [1..n -> [V -> V]]
  PROVE  \E g : Recurs(g, n, V, b, step)
<1> DEFINE Good(k, g) == g[0] = b /\ \A i \in 1..k : g[i] = step[i][g[i - 1]]
           T == {k \in Nat : k <= n => \E g \in [0..k -> V] : Good(k, g)}
<1>1. 0 \in T
  <2> DEFINE g == [i \in 0..0 |-> b]
  <2>1. g \in [0..0 -> V] /\ Good(0, g)
    OBVIOUS
  <2> HIDE DEF g, Good
  <2> QED
    BY <2>1
<1>2. ASSUME NEW k \in T PROVE k + 1 \in T
  <2>0. k \in Nat /\ k + 1 \in Nat /\ (k <= n => \E g \in [0..k -> V] : Good(k, g))
    <3> HIDE DEF Good
    <3> QED
      OBVIOUS
  <2> SUFFICES ASSUME k + 1 <= n
               PROVE  \E g \in [0..(k + 1) -> V] : Good(k + 1, g)
    <3> HIDE DEF Good
    <3> QED
      BY <2>0
  <2>1. k \in Nat /\ k <= n
    BY <2>0
  <2>2. PICK g \in [0..k -> V] : Good(k, g)
    BY <2>0, <2>1
  <2> DEFINE next == step[k + 1][g[k]]
             f == [i \in 0..(k + 1) |-> IF i <= k THEN g[i] ELSE next]
  <2>3. next \in V
    <3>1. g[k] \in V /\ step[k + 1] \in [V -> V]
      BY <2>1
    <3> QED
      BY <3>1
  <2>4. f \in [0..(k + 1) -> V]
    <3> HIDE DEF next
    <3> QED
      BY <2>1, <2>3
  <2>5. f[0] = b
    BY <2>1, <2>2
  <2>6. ASSUME NEW i \in 1..(k + 1) PROVE f[i] = step[i][f[i - 1]]
    <3>1. CASE i <= k
      <4>1. f[i] = g[i] /\ f[i - 1] = g[i - 1] /\ i \in 1..k
        BY <2>1, <3>1
      <4> QED
        BY <2>2, <4>1
    <3>2. CASE i = k + 1
      <4>1. f[i] = next /\ f[i - 1] = g[k]
        BY <2>1, <3>2
      <4> QED
        BY <3>2, <4>1
    <3>3. i <= k \/ i = k + 1
      BY <2>1
    <3> HIDE DEF f
    <3> QED
      BY <3>1, <3>2, <3>3
  <2> HIDE DEF f
  <2> QED
    BY <2>4, <2>5, <2>6
<1>3. T \in SUBSET Nat
  OBVIOUS
<1>4. n \in T
  <2> HIDE DEF T
  <2> QED
    BY <1>1, <1>2, <1>3, Induction
<1>5. \E g \in [0..n -> V] : Good(n, g)
  <2> HIDE DEF Good
  <2> QED
    BY <1>4
<1>6. PICK g \in [0..n -> V] : Good(n, g)
  <2> HIDE DEF Good
  <2> QED
    BY <1>5
<1>7. Recurs(g, n, V, b, step)
  BY <1>6 DEF Recurs
<1> QED
  BY <1>7

(* UpTo is what its equations say. *)
LEMMA UpToDef ==
  ASSUME NEW h \in [Objects -> Cells], NEW o \in Objects,
         NEW inner \in [Objects -> Seq(Parts)]
  PROVE  /\ UpTo(h, o, inner) \in [0..Len(Held(h, o)) -> Seq(Parts)]
         /\ UpTo(h, o, inner)[0] = Own(h, o)
         /\ \A i \in 1..Len(Held(h, o)) :
              UpTo(h, o, inner)[i] = UpTo(h, o, inner)[i - 1] \o inner[Held(h, o)[i]]
<1> DEFINE items == Held(h, o)
           n == Len(items)
           D(g) == [i \in 0..n |-> IF i = 0 THEN Own(h, o)
                                   ELSE g[i - 1] \o inner[items[i]]]
           f == UpTo(h, o, inner)
           x == [i \in 1..n |-> [v \in Seq(Parts) |-> v \o inner[items[i]]]]
<1>1. items \in Seq(Objects) /\ n \in Nat /\ Own(h, o) \in Seq(Parts)
  BY OwnType
<1>2. /\ x \in [1..n -> [Seq(Parts) -> Seq(Parts)]]
      /\ \A i \in 1..n : \A v \in Seq(Parts) : x[i][v] = v \o inner[items[i]]
  <2>1. ASSUME NEW i \in 1..n, NEW v \in Seq(Parts)
        PROVE  v \o inner[items[i]] \in Seq(Parts)
    <3>1. inner[items[i]] \in Seq(Parts)
      <4> HIDE DEF items
      <4> QED
        BY <1>1
    <3> HIDE DEF items, n
    <3> QED
      BY <3>1, ConcatProperties
  <2> HIDE DEF items, n
  <2> QED
    BY <2>1
<1> DEFINE V == Seq(Parts)
           b == Own(h, o)
<1>3. PICK g : Recurs(g, n, V, b, x)
  <2>1. x \in [1..n -> [V -> V]]
    BY <1>2
  <2>2. n \in Nat /\ b \in V
    BY <1>1
  <2> HIDE DEF n, x, V, b
  <2> QED
    BY <2>1, <2>2, RecursionExists
<1> USE DEF Recurs
<1>4. \A i \in 1..n : g[i] = g[i - 1] \o inner[items[i]]
  <2> TAKE i \in 1..n
  <2>1. g[i - 1] \in V
    <3>1. n \in Nat
      BY <1>1
    <3> HIDE DEF items, n, V
    <3>2. i - 1 \in 0..n
      BY <3>1
    <3> QED
      BY <1>3, <3>2
  <2> HIDE DEF items, n, x
  <2> QED
    BY <1>2, <1>3, <2>1
<1>5. g = D(g)
  <2>1. n \in Nat /\ g[0] = Own(h, o) /\ g = [i \in 0..n |-> g[i]]
    <3> HIDE DEF n, x
    <3> QED
      BY <1>1, <1>3
  <2>2. \A i \in 0..n : g[i] = IF i = 0 THEN Own(h, o) ELSE g[i - 1] \o inner[items[i]]
    <3> TAKE i \in 0..n
    <3>1. CASE i = 0
      BY <2>1, <3>1
    <3>2. CASE i # 0
      <4>1. i \in 1..n
        <5> HIDE DEF n
        <5> QED
          BY <2>1, <3>2
      <4> HIDE DEF n, items
      <4> QED
        BY <1>4, <3>2, <4>1
    <3> QED
      BY <3>1, <3>2
  <2> HIDE DEF n, items
  <2> QED
    BY <2>1, <2>2
<1>6. f = CHOOSE y : y = D(y)
  BY DEF UpTo
<1>7. f = D(f)
  <2> HIDE DEF D, f
  <2> QED
    BY <1>5, <1>6
<1>8. /\ DOMAIN f = 0..n /\ f = [i \in 0..n |-> f[i]] /\ f[0] = Own(h, o)
      /\ \A i \in 1..n : f[i] = f[i - 1] \o inner[items[i]]
  <2> HIDE DEF f
  <2>1. f = [i \in 0..n |-> IF i = 0 THEN Own(h, o)
                            ELSE f[i - 1] \o inner[items[i]]]
    BY <1>7
  <2>2. DOMAIN f = 0..n /\ \A i \in 0..n : f[i] = IF i = 0 THEN Own(h, o)
                                            ELSE f[i - 1] \o inner[items[i]]
    <3> HIDE DEF D, items, n
    <3> QED
      BY <2>1
  <2>3. f = [i \in 0..n |-> f[i]]
    <3> HIDE DEF D, items, n
    <3> QED
      BY <2>1
  <2>4. 0 \in 0..n /\ \A i \in 1..n : i \in 0..n /\ i # 0
    <3> HIDE DEF D, items, n
    <3> QED
      BY <1>1
  <2> HIDE DEF D, items, n
  <2> QED
    BY <2>2, <2>3, <2>4
<1>9. f = g
  <2>1. \A i \in 1..n : f[i - 1] = g[i - 1] => f[i] = g[i]
    <3> HIDE DEF f, items, n, D
    <3> QED
      BY <1>4, <1>8
  <2>2. DOMAIN g = 0..n /\ g = [i \in 0..n |-> g[i]] /\ f[0] = g[0]
    <3> HIDE DEF f, items, n, D
    <3> QED
      BY <1>3, <1>8
  <2> HIDE DEF f, n, D, items
  <2> QED
    BY <1>1, <1>8, <2>1, <2>2, SameRecursion
<1> HIDE DEF f, n, D, x
<1>10. f \in [0..n -> Seq(Parts)] /\ f[0] = Own(h, o)
       /\ \A i \in 1..n : f[i] = f[i - 1] \o inner[items[i]]
  BY <1>3, <1>8, <1>9
<1> QED
  BY <1>10 DEF f, n

(* The parts of every object, where inner has those of the objects it holds. *)
Layer(h, inner) == [o \in Objects |-> UpTo(h, o, inner)[Len(Held(h, o))]]

LEMMA LayerType ==
  ASSUME NEW h \in [Objects -> Cells], NEW inner \in [Objects -> Seq(Parts)]
  PROVE  Layer(h, inner) \in [Objects -> Seq(Parts)]
<1>1. ASSUME NEW o \in Objects
      PROVE  UpTo(h, o, inner)[Len(Held(h, o))] \in Seq(Parts)
  <2>1. Len(Held(h, o)) \in Nat
    BY OwnType
  <2> DEFINE n == Len(Held(h, o))
             V == Seq(Parts)
             f == UpTo(h, o, inner)
  <2>2. f \in [0..n -> V]
    BY UpToDef
  <2> HIDE DEF n, V, f
  <2>3. f[n] \in V
    BY <2>1, <2>2 DEF n
  <2> QED
    BY <2>3 DEF n, V, f
<1> QED
  BY <1>1 DEF Layer

(* Images is what its equations say. *)
LEMMA ImagesDef ==
  ASSUME NEW h \in [Objects -> Cells]
  PROVE  /\ Images(h) \in [0..MaxStack -> [Objects -> Seq(Parts)]]
         /\ \A n \in 1..MaxStack : Images(h)[n] = Layer(h, Images(h)[n - 1])
<1> DEFINE V == [Objects -> Seq(Parts)]
           b == [o \in Objects |-> <<>>]
           D(g) == [n \in 0..MaxStack |-> IF n = 0 THEN b ELSE Layer(h, g[n - 1])]
           f == Images(h)
           x == [i \in 1..MaxStack |-> [v \in V |-> Layer(h, v)]]
<1>1. MaxStack \in Nat /\ b \in V
  BY BoundsAssumption
<1>2. /\ x \in [1..MaxStack -> [V -> V]]
      /\ \A i \in 1..MaxStack : \A v \in V : x[i][v] = Layer(h, v)
  <2>1. \A v \in V : Layer(h, v) \in V
    BY LayerType
  <2> HIDE DEF V
  <2> QED
    BY <2>1
<1>3. PICK g : Recurs(g, MaxStack, V, b, x)
  <2> HIDE DEF V, b, x
  <2> QED
    BY <1>1, <1>2, RecursionExists
<1> USE DEF Recurs
<1>4. \A i \in 1..MaxStack : g[i] = Layer(h, g[i - 1])
  <2> TAKE i \in 1..MaxStack
  <2>1. g[i - 1] \in V
    <3> HIDE DEF V
    <3> QED
      BY <1>1, <1>3
  <2> HIDE DEF V, x
  <2> QED
    BY <1>2, <1>3, <2>1
<1>5. g = D(g)
  <2>1. g[0] = b /\ g = [i \in 0..MaxStack |-> g[i]]
    BY <1>3
  <2>2. \A i \in 0..MaxStack : g[i] = IF i = 0 THEN b ELSE Layer(h, g[i - 1])
    <3> TAKE i \in 0..MaxStack
    <3>1. CASE i = 0
      BY <2>1, <3>1
    <3>2. CASE i # 0
      <4>1. i \in 1..MaxStack
        BY <1>1, <3>2
      <4> HIDE DEF b
      <4> QED
        BY <1>4, <3>2, <4>1
    <3> QED
      BY <3>1, <3>2
  <2> HIDE DEF b
  <2> QED
    BY <2>1, <2>2
<1>6. f = CHOOSE y : y = D(y)
  BY DEF Images, Layer
<1>7. f = D(f)
  <2> HIDE DEF D, f
  <2> QED
    BY <1>5, <1>6
<1>8. /\ DOMAIN f = 0..MaxStack /\ f = [i \in 0..MaxStack |-> f[i]] /\ f[0] = b
      /\ \A i \in 1..MaxStack : f[i] = Layer(h, f[i - 1])
  <2> HIDE DEF f
  <2>1. f = [i \in 0..MaxStack |-> IF i = 0 THEN b ELSE Layer(h, f[i - 1])]
    BY <1>7
  <2> HIDE DEF D, b
  <2>2. DOMAIN f = 0..MaxStack
        /\ \A i \in 0..MaxStack : f[i] = IF i = 0 THEN b ELSE Layer(h, f[i - 1])
    BY <2>1
  <2>3. f = [i \in 0..MaxStack |-> f[i]]
    BY <2>1
  <2>4. 0 \in 0..MaxStack /\ \A i \in 1..MaxStack : i \in 0..MaxStack /\ i # 0
    BY <1>1
  <2> QED
    BY <2>2, <2>3, <2>4
<1>9. f = g
  <2> HIDE DEF f, D, b
  <2>1. \A i \in 1..MaxStack : f[i - 1] = g[i - 1] => f[i] = g[i]
    BY <1>4, <1>8
  <2>2. DOMAIN g = 0..MaxStack /\ g = [i \in 0..MaxStack |-> g[i]] /\ f[0] = g[0]
    BY <1>3, <1>8
  <2> QED
    BY <1>1, <1>8, <2>1, <2>2, SameRecursion
<1> QED
  BY <1>3, <1>8, <1>9

-----------------------------------------------------------------------------
(* What is missing, and what is owed. *)

(* What the parts dumped so far leave missing, of a value that is not yet
   whole before the last of them. *)
Missed(parts, d) ==
  \E m : /\ Counts(parts, m)
         /\ \A n \in 0..(Len(parts) - 1) : m[n] > 0
         /\ m[Len(parts)] = d

(* What an activation still has to dump. *)
Due(h, a) == IF a.reached = 0 THEN 1 ELSE Len(h[a.of].items) - a.reached

(* w is what the first i activations owe, for each i. *)
Owes(h, s, w) ==
  /\ w \in [0..Len(s) -> Nat]
  /\ w[0] = 0
  /\ \A i \in 1..Len(s) : w[i] = w[i - 1] + Due(h, s[i])

(* What all of the activations still have to dump. *)
Owed(h, s, d) == \E w : Owes(h, s, w) /\ w[Len(s)] = d

(* Of a value of which nothing is dumped one value is missing. *)
LEMMA MissedNone == Missed(<<>>, 1)
<1> DEFINE m == [n \in 0..0 |-> 1]
<1>1. Counts(<<>>, m) /\ m[Len(<<>>)] = 1 /\ \A n \in 0..(Len(<<>>) - 1) : m[n] > 0
  BY DEF Counts
<1> QED
  BY <1>1 DEF Missed

(* A part is one value less, and as many more as it announces. *)
LEMMA MissedAppend ==
  ASSUME NEW parts \in Seq(Parts), NEW d \in Nat \ {0}, Missed(parts, d),
         NEW p \in Parts
  PROVE  Missed(Append(parts, p), d - 1 + Announced(p))
<1> DEFINE L == Len(parts)
           more == Append(parts, p)
<1>1. L \in Nat /\ Len(more) = L + 1 /\ more[L + 1] = p
      /\ \A i \in 1..L : more[i] = parts[i]
  BY AppendProperties
<1>2. PICK m : /\ Counts(parts, m) /\ m[L] = d
               /\ \A n \in 0..(L - 1) : m[n] > 0
  BY DEF Missed
<1>3. /\ m \in [0..L -> Int] /\ m[0] = 1
      /\ \A n \in 1..L : m[n] = m[n - 1] - 1 + Announced(parts[n])
  BY <1>2 DEF Counts
<1>4. Announced(p) \in Nat
  BY DEF Announced, Parts
<1> HIDE DEF L, more
<1> DEFINE last == d - 1 + Announced(p)
           g == [n \in 0..(L + 1) |-> IF n <= L THEN m[n] ELSE last]
<1>5. last \in Int
  BY <1>4
<1>6. /\ g \in [0..(L + 1) -> Int] /\ g[0] = 1 /\ g[L + 1] = last
      /\ \A n \in 0..L : g[n] = m[n]
  <2> HIDE DEF last
  <2> QED
    BY <1>1, <1>3, <1>5
<1>7. ASSUME NEW n \in 1..(L + 1)
      PROVE  g[n] = g[n - 1] - 1 + Announced(more[n])
  <2> HIDE DEF g
  <2>1. CASE n \in 1..L
    <3>1. g[n] = m[n] /\ g[n - 1] = m[n - 1] /\ more[n] = parts[n]
      BY <1>1, <1>6, <2>1
    <3> QED
      BY <1>3, <2>1, <3>1
  <2>2. CASE n = L + 1
    <3>1. g[n] = last /\ g[n - 1] = d /\ more[n] = p
      BY <1>1, <1>2, <1>6, <2>2
    <3> QED
      BY <3>1
  <2> QED
    BY <1>1, <2>1, <2>2
<1>8. \A n \in 0..L : g[n] > 0
  <2> HIDE DEF g
  <2> QED
    BY <1>1, <1>2, <1>6
<1> HIDE DEF g, last
<1>9. Counts(more, g)
  BY <1>1, <1>6, <1>7 DEF Counts
<1>10. Len(more) - 1 = L
  BY <1>1
<1>11. Missed(more, last)
  BY <1>1, <1>6, <1>8, <1>9, <1>10 DEF Missed
<1> QED
  BY <1>11 DEF more, last

(* When nothing is missing at the end, and something was before, it is whole. *)
LEMMA WholeIsWhole ==
  ASSUME NEW parts \in Seq(Parts), Missed(parts, 0)
  PROVE  \A n \in 0..Len(parts) : Missing(parts)[n] = 0 <=> n = Len(parts)
<1>1. PICK m : /\ Counts(parts, m) /\ m[Len(parts)] = 0
               /\ \A n \in 0..(Len(parts) - 1) : m[n] > 0
  BY DEF Missed
<1>2. Missing(parts) = m
  BY <1>1, MissingIs
<1>3. ASSUME NEW n \in 0..Len(parts), n # Len(parts) PROVE m[n] # 0
  <2>1. n \in 0..(Len(parts) - 1)
    BY <1>3
  <2>2. m[n] > 0
    BY <1>1, <2>1
  <2>3. m[n] \in Int
    BY <1>1 DEF Counts
  <2> QED
    BY <2>2, <2>3
<1> QED
  BY <1>1, <1>2, <1>3

-----------------------------------------------------------------------------
(* No activation owes nothing. *)
LEMMA OwedNone == ASSUME NEW h PROVE Owed(h, <<>>, 0)
<1> DEFINE w == [n \in 0..0 |-> 0]
<1>1. Owes(h, <<>>, w) /\ w[Len(<<>>)] = 0
  BY DEF Owes
<1> QED
  BY <1>1 DEF Owed

(* One activation more owes what is its due more. *)
LEMMA OwedAppend ==
  ASSUME NEW h, NEW s \in Seq(Activations), NEW d \in Nat, Owed(h, s, d),
         NEW a \in Activations, Due(h, a) \in Nat
  PROVE  Owed(h, Append(s, a), d + Due(h, a))
<1> DEFINE L == Len(s)
           more == Append(s, a)
<1>1. L \in Nat /\ Len(more) = L + 1 /\ more[L + 1] = a
      /\ \A i \in 1..L : more[i] = s[i]
  BY AppendProperties
<1>2. PICK w : Owes(h, s, w) /\ w[L] = d
  BY DEF Owed
<1>3. /\ w \in [0..L -> Nat] /\ w[0] = 0
      /\ \A i \in 1..L : w[i] = w[i - 1] + Due(h, s[i])
  BY <1>2 DEF Owes
<1> HIDE DEF L, more
<1> DEFINE last == d + Due(h, a)
           g == [n \in 0..(L + 1) |-> IF n <= L THEN w[n] ELSE last]
<1>5. last \in Nat
  OBVIOUS
<1>6. /\ g \in [0..(L + 1) -> Nat] /\ g[0] = 0 /\ g[L + 1] = last
      /\ \A n \in 0..L : g[n] = w[n]
  <2> HIDE DEF last
  <2> QED
    BY <1>1, <1>3, <1>5
<1>7. ASSUME NEW n \in 1..(L + 1)
      PROVE  g[n] = g[n - 1] + Due(h, more[n])
  <2> HIDE DEF g
  <2>1. CASE n \in 1..L
    <3>1. g[n] = w[n] /\ g[n - 1] = w[n - 1] /\ more[n] = s[n]
      BY <1>1, <1>6, <2>1
    <3> QED
      BY <1>3, <2>1, <3>1
  <2>2. CASE n = L + 1
    <3>1. g[n] = last /\ g[n - 1] = d /\ more[n] = a
      BY <1>1, <1>2, <1>6, <2>2
    <3> QED
      BY <3>1
  <2> QED
    BY <1>1, <2>1, <2>2
<1> HIDE DEF g, last
<1>9. Owes(h, more, g)
  BY <1>1, <1>6, <1>7 DEF Owes
<1>11. Owed(h, more, last)
  BY <1>1, <1>6, <1>9 DEF Owed
<1> QED
  BY <1>11 DEF more, last

(* Without the last activation the rest owes less by what was its due. *)
LEMMA OwedBelow ==
  ASSUME NEW h, NEW s \in Seq(Activations), NEW a \in Activations, NEW d \in Nat,
         Owed(h, Append(s, a), d), Due(h, a) \in Int
  PROVE  d - Due(h, a) \in Nat /\ Owed(h, s, d - Due(h, a))
<1> DEFINE L == Len(s)
           more == Append(s, a)
<1>1. L \in Nat /\ Len(more) = L + 1 /\ more[L + 1] = a
      /\ \A i \in 1..L : more[i] = s[i]
  BY AppendProperties
<1>2. PICK w : Owes(h, more, w) /\ w[L + 1] = d
  BY <1>1 DEF Owed
<1>3. /\ w \in [0..(L + 1) -> Nat] /\ w[0] = 0
      /\ \A i \in 1..(L + 1) : w[i] = w[i - 1] + Due(h, more[i])
  BY <1>1, <1>2 DEF Owes
<1> HIDE DEF L, more
<1> DEFINE g == [n \in 0..L |-> w[n]]
<1>4. w[L + 1] = w[L] + Due(h, a) /\ w[L] \in Nat
  BY <1>1, <1>3
<1>5. d - Due(h, a) = w[L]
  BY <1>2, <1>4
<1>6. g \in [0..L -> Nat] /\ g[0] = 0 /\ g[L] = w[L]
  BY <1>1, <1>3
<1>7. \A i \in 1..L : g[i] = g[i - 1] + Due(h, s[i])
  BY <1>1, <1>3
<1>8. Owes(h, s, g)
  BY <1>6, <1>7 DEF Owes, L
<1> HIDE DEF g
<1> QED
  BY <1>4, <1>5, <1>6, <1>8 DEF Owed, L

(* What is owed depends on how much the objects hold, not on what. *)
LEMMA OwedSame ==
  ASSUME NEW h \in [Objects -> Cells], NEW g \in [Objects -> Cells],
         \A o \in Objects : Len(g[o].items) = Len(h[o].items),
         NEW s \in Seq(Activations), NEW d, Owed(h, s, d)
  PROVE  Owed(g, s, d)
<1>1. ASSUME NEW a \in Activations PROVE Due(g, a) = Due(h, a)
  <2>1. a.of \in Objects
    BY DEF Activations
  <2> QED
    BY <2>1 DEF Due
<1>2. PICK w : Owes(h, s, w) /\ w[Len(s)] = d
  BY DEF Owed
<1>3. \A i \in 1..Len(s) : s[i] \in Activations
  OBVIOUS
<1>4. Owes(g, s, w)
  BY <1>1, <1>2, <1>3 DEF Owes
<1> QED
  BY <1>2, <1>4 DEF Owed

LEMMA OwedEmpty ==
  ASSUME NEW h, NEW d, Owed(h, <<>>, d)
  PROVE  d = 0
BY DEF Owed, Owes

-----------------------------------------------------------------------------
(* The stack is what is below its top, and its top. *)
LEMMA StackIs ==
  ASSUME TypeOK, pc = "value"
  PROVE  /\ below \in Seq(Activations) /\ top \in Activations
         /\ stack = Append(below, top)
         /\ Len(stack) \in 1..MaxStack /\ Len(below) = Len(stack) - 1
         /\ \A r \in Nat : [stack EXCEPT ![Len(stack)].reached = r]
                             = Append(below, [of |-> top.of, reached |-> r])
<1>1. /\ below \in Seq(Activations) /\ Len(below) = Len(stack) - 1
      /\ top \in Activations /\ stack \in Seq(Activations)
      /\ Len(stack) \in 1..MaxStack
  BY TopType, BelowType DEF TypeOK, Activations
<1>2. Len(stack) \in Nat \ {0}
  BY TopType
<1>3. \A i \in 1..(Len(stack) - 1) : below[i] = stack[i]
  <2>1. \A i \in 1..(Len(stack) - 1) : stack[i] \in Activations
    BY <1>1, <1>2
  <2>2. 1 \in Int /\ Len(stack) - 1 \in Int
    BY <1>2
  <2> DEFINE n == Len(stack) - 1
  <2> HIDE DEF n
  <2>3. n \in Nat
    BY <1>2 DEF n
  <2>4. \A i \in 1..n : SubSeq(stack, 1, n)[i] = stack[i]
    <3>1. \A i \in 1..n : stack[i] \in Activations
      BY <2>1 DEF n
    <3> TAKE i \in 1..n
    <3>2. 1 + i - 1 = i /\ n = n - 1 + 1 /\ 1 <= n
      BY <2>3
    <3>3. i \in 1..(IF 1 <= n THEN n - 1 + 1 ELSE 0)
      BY <2>3
    <3> QED
      BY <2>3, <3>1, <3>2, <3>3, SubSeqProperties
  <2> QED
    BY <2>4 DEF below, n
<1> DEFINE n == Len(below)
<1>4. /\ n \in Nat /\ Len(stack) = n + 1 /\ stack[n + 1] = top
      /\ \A i \in 1..n : below[i] = stack[i]
  BY <1>1, <1>2, <1>3 DEF top
<1>5. ASSUME NEW s \in Seq(Activations), Len(s) = n + 1, NEW a \in Activations,
             s[n + 1] = a, \A i \in 1..n : s[i] = stack[i]
      PROVE  s = Append(below, a)
  <2> DEFINE q == Append(below, a)
  <2>1. /\ q \in Seq(Activations) /\ Len(q) = n + 1 /\ q[n + 1] = a
        /\ \A i \in 1..n : q[i] = below[i]
    BY <1>1, AppendProperties
  <2> HIDE DEF q, n
  <2>2. \A i \in 1..(n + 1) : q[i] = s[i]
    BY <1>4, <1>5, <2>1
  <2>3. q = s
    BY <1>4, <1>5, <2>1, <2>2, SeqEqual
  <2> QED
    BY <2>3 DEF q
<1>6. stack = Append(below, top)
  <2> HIDE DEF n
  <2> QED
    BY <1>1, <1>4, <1>5
<1>7. ASSUME NEW r \in Nat
      PROVE  [stack EXCEPT ![Len(stack)].reached = r]
               = Append(below, [of |-> top.of, reached |-> r])
  <2> DEFINE t == [of |-> top.of, reached |-> r]
             s == [stack EXCEPT ![Len(stack)] = t]
  <2>1. t \in Activations /\ t = [stack[Len(stack)] EXCEPT !.reached = r]
    BY <1>1, TopType DEF Activations, top
  <2>2. s = [stack EXCEPT ![Len(stack)].reached = r]
    <3> HIDE DEF t
    <3> QED
      BY <2>1
  <2>3. /\ s \in Seq(Activations) /\ Len(s) = n + 1 /\ s[n + 1] = t
        /\ \A i \in 1..n : s[i] = stack[i]
    <3> HIDE DEF t, n
    <3>1. Len(stack) \in 1..Len(stack)
      BY <1>2
    <3> QED
      BY <1>1, <1>4, <2>1, <3>1, ExceptSeq
  <2>4. s = Append(below, t)
    <3> HIDE DEF t, n, s
    <3> QED
      BY <1>5, <2>1, <2>3
  <2> QED
    BY <2>2, <2>4
<1> QED
  BY <1>1, <1>6, <1>7

(* A value that holds others is entered once more: the activation on top has
   come one further, and there is one for what it holds there. *)
LEMMA PushShape ==
  ASSUME IInv, dump_reference \/ dump_element \/ dump_array
  PROVE  /\ pc = "value" /\ pc' = pc
         /\ UNCHANGED <<heap, args, values, failed, lostIn, stores>>
         /\ cell.kind \in {"reference", "array"}
         /\ cell.items \in Seq(Objects)
         /\ top.reached + 1 \in 1..Len(cell.items)
         /\ Len(stack) < MaxStack
         /\ stack' = Append(Append(below, [of |-> top.of, reached |-> top.reached + 1]),
                            [of |-> cell.items[top.reached + 1], reached |-> 0])
<1> USE DEF IInv
<1>1. pc = "value" /\ pc' = pc
      /\ UNCHANGED <<heap, args, values, failed, lostIn, stores>>
      /\ cell.kind \in {"reference", "array"} /\ Len(stack) < MaxStack
  BY DEF dump_reference, dump_element, dump_array, At, Call
<1>2. cell.items \in Seq(Objects) /\ Len(cell.items) \in Nat /\ top.reached \in Nat
  <2>1. cell \in Cells /\ top.reached \in Nat
    BY <1>1, TopType
  <2> QED
    BY <2>1 DEF Cells
<1>3. top.reached + 1 \in 1..Len(cell.items)
  <2>1. CASE dump_reference
    <3>1. cell.kind = "reference" /\ top.reached = 0
      BY <2>1 DEF dump_reference, At
    <3>2. Len(cell.items) = 1
      BY <1>1, <3>1, TopType DEF ReferencesHold, cell
    <3> QED
      BY <3>1, <3>2
  <2>2. CASE dump_element
    BY <1>2, <2>2 DEF dump_element
  <2>3. CASE dump_array
    <3>1. top.reached = 0 /\ cell.items # <<>>
      BY <2>3 DEF dump_array, At
    <3>2. Len(cell.items) # 0
      BY <1>2, <3>1, EmptySeq
    <3> QED
      BY <1>2, <3>1, <3>2
  <2> QED
    BY <2>1, <2>2, <2>3
<1>4. stack' = Append([stack EXCEPT ![Len(stack)].reached = top.reached + 1],
                      Activation(cell.items[top.reached + 1]))
  <2>1. CASE dump_reference
    BY <2>1 DEF dump_reference, Call, top
  <2>2. CASE dump_element
    BY <2>2 DEF dump_element, Call, top
  <2>3. CASE dump_array
    <3>1. top.reached = 0 /\ 0 + 1 = 1
      BY <2>3 DEF dump_array, At
    <3>2. stack' = Append([stack EXCEPT ![Len(stack)].reached = 1],
                          Activation(cell.items[1]))
      BY <2>3 DEF dump_array
    <3> QED
      BY <3>1, <3>2
  <2> QED
    BY <2>1, <2>2, <2>3
<1>5. [stack EXCEPT ![Len(stack)].reached = top.reached + 1]
        = Append(below, [of |-> top.of, reached |-> top.reached + 1])
  <2>1. top.reached + 1 \in Nat
    BY <1>2
  <2> QED
    BY <1>1, <2>1, StackIs
<1> QED
  BY <1>1, <1>2, <1>3, <1>4, <1>5 DEF Activation

-----------------------------------------------------------------------------
(* The balance of the two. *)

(* What the activations owe is what the parts leave missing. *)
WholeInv ==
  /\ pc = "value" => \E d \in Nat : Owed(heap, stack, d) /\ Missed(part, d)
  /\ \A k \in 1..Len(values) : Missed(values[k], 0)

WInv == IInv /\ WholeInv

LEMMA AnotherWhole ==
  ASSUME TypeOK, WholeInv, NEW v \in Seq(Parts), Missed(v, 0)
  PROVE  \A k \in 1..Len(Append(values, v)) : Missed(Append(values, v)[k], 0)
<1>1. /\ values \in Seq(Seq(Parts)) /\ Len(values) \in Nat
      /\ \A k \in 1..Len(values) : Missed(values[k], 0)
  BY DEF TypeOK, WholeInv
<1>2. /\ Len(Append(values, v)) = Len(values) + 1
      /\ Append(values, v)[Len(values) + 1] = v
      /\ \A k \in 1..Len(values) : Append(values, v)[k] = values[k]
  BY <1>1, AppendProperties
<1> TAKE k \in 1..Len(Append(values, v))
<1>3. k \in 1..Len(values) \/ k = Len(values) + 1
  BY <1>1, <1>2
<1> QED
  BY <1>1, <1>2, <1>3

(* The activation on top returns, when what is below owes what is missing. *)
LEMMA ReturnWhole ==
  ASSUME WInv, pc = "value", NEW dumped \in Seq(Parts), Return(dumped),
         part' = dumped, NEW d \in Nat, Owed(heap, below, d), Missed(dumped, d)
  PROVE  WholeInv'
<1>1. heap' = heap /\ stack' = below
  BY DEF Return
<1>2. CASE below = <<>>
  <2>1. d = 0
    BY <1>2, OwedEmpty
  <2>2. pc' = "frame" /\ values' = Append(values, dumped)
    BY <1>2 DEF Return
  <2>3. \A k \in 1..Len(values') : Missed(values'[k], 0)
    BY <2>1, <2>2, AnotherWhole DEF WInv, IInv
  <2> QED
    BY <2>2, <2>3 DEF WholeInv
<1>3. CASE below # <<>>
  <2>1. pc' = pc /\ values' = values
    BY <1>3 DEF Return
  <2>2. Owed(heap', stack', d) /\ Missed(part', d)
    BY <1>1
  <2>3. \A k \in 1..Len(values') : Missed(values'[k], 0)
    BY <2>1 DEF WInv, WholeInv
  <2> QED
    BY <2>2, <2>3 DEF WholeInv
<1> QED
  BY <1>2, <1>3

(* What is below the activation on top owes the rest. *)
LEMMA RestOwed ==
  ASSUME WInv, pc = "value", Due(heap, top) \in Int
  PROVE  \E d \in Nat : /\ Missed(part, d)
                        /\ d - Due(heap, top) \in Nat
                        /\ Owed(heap, below, d - Due(heap, top))
<1>1. PICK d \in Nat : Owed(heap, stack, d) /\ Missed(part, d)
  BY DEF WInv, WholeInv
<1>2. below \in Seq(Activations) /\ top \in Activations /\ stack = Append(below, top)
  BY StackIs DEF WInv, IInv
<1> QED
  BY <1>1, <1>2, OwedBelow

(* One part that announces nothing is a whole value. *)
LEMMA EmitWhole ==
  ASSUME WInv, pc = "value", top.reached = 0,
         NEW p \in Parts, part' = Append(part, p), Announced(p) = 0, Return(part')
  PROVE  WholeInv'
<1>1. Due(heap, top) = 1
  BY DEF Due
<1>2. PICK d \in Nat : Missed(part, d) /\ d - 1 \in Nat /\ Owed(heap, below, d - 1)
  BY <1>1, RestOwed
<1>3. part \in Seq(Parts)
  BY DEF WInv, IInv, TypeOK
<1>4. d \in Nat \ {0} /\ d - 1 + 0 = d - 1
  BY <1>2
<1>5. Missed(part', d - 1) /\ part' \in Seq(Parts)
  BY <1>2, <1>3, <1>4, MissedAppend, AppendProperties
<1> QED
  BY <1>2, <1>5, ReturnWhole

(* Values that hold nothing, and the end of those that do. *)
LEMMA LeafWhole ==
  ASSUME WInv,
         \/ dump_null \/ dump_string \/ dump_object_raw \/ dump_matrix
         \/ dump_empty_array \/ EndHolder
  PROVE  WholeInv'
<1>0. pc = "value" /\ cell \in Cells
  BY TopType DEF dump_null, dump_string, dump_object_raw, dump_matrix, dump_empty_array,
     EndHolder, At, WInv, IInv
<1>1. CASE EndHolder
  <2>1. top.reached > 0 /\ top.reached = Len(cell.items) /\ part' = part /\ Return(part)
    BY <1>1 DEF EndHolder
  <2>2. Due(heap, top) = 0
    <3>1. top.reached \in Nat
      BY <1>0, TopType DEF WInv, IInv
    <3> QED
      BY <2>1, <3>1 DEF Due, cell
  <2>3. PICK d \in Nat : Missed(part, d) /\ d - 0 \in Nat /\ Owed(heap, below, d - 0)
    BY <1>0, <2>2, RestOwed
  <2>4. d - 0 = d
    OBVIOUS
  <2>5. part \in Seq(Parts)
    BY DEF WInv, IInv, TypeOK
  <2> QED
    BY <1>0, <2>1, <2>3, <2>4, <2>5, ReturnWhole
<1>2. CASE dump_null \/ dump_string \/ dump_object_raw \/ dump_matrix \/ dump_empty_array
  <2>1. top.reached = 0 /\ Return(part')
    BY <1>2 DEF dump_null, dump_string, dump_object_raw, dump_matrix,
       dump_empty_array, At
  <2>2. \E p \in Parts : part' = Append(part, p) /\ Announced(p) = 0
    <3>1. ASSUME NEW is \in {"null", "array", "string", "raw"}, NEW size \in Nat,
                 part' = Append(part, [is |-> is, size |-> size]),
                 is = "array" => size = 0
          PROVE  \E p \in Parts : part' = Append(part, p) /\ Announced(p) = 0
      <4>1. [is |-> is, size |-> size] \in Parts
        BY DEF Parts
      <4>2. Announced([is |-> is, size |-> size]) = 0
        BY <3>1 DEF Announced
      <4> QED
        BY <3>1, <4>1, <4>2
    <3>2. CASE dump_null
      BY <3>1, <3>2 DEF dump_null, Emit
    <3>3. CASE dump_string
      BY <3>1, <3>3 DEF dump_string, Emit
    <3>4. CASE dump_object_raw
      <4>1. (IF cell.size > ULONG_MAX THEN 0 ELSE cell.size) \in Nat
        BY <1>0 DEF Cells
      <4> QED
        BY <3>1, <3>4, <4>1 DEF dump_object_raw, Emit
    <3>5. CASE dump_matrix
      BY <3>1, <3>5 DEF dump_matrix, Emit
    <3>6. CASE dump_empty_array
      BY <3>1, <3>6 DEF dump_empty_array, Emit
    <3> QED
      BY <1>2, <3>2, <3>3, <3>4, <3>5, <3>6
  <2> QED
    BY <1>0, <2>1, <2>2, EmitWhole
<1> QED
  BY <1>1, <1>2

(* Values that hold others: the due of the top is passed on to what it holds. *)
LEMMA PushWhole ==
  ASSUME WInv, dump_reference \/ dump_element \/ dump_array
  PROVE  WholeInv'
<1> DEFINE r == top.reached + 1
           n == Len(cell.items)
           t == [of |-> top.of, reached |-> r]
           act == [of |-> cell.items[r], reached |-> 0]
<1>1. /\ pc = "value" /\ pc' = pc
      /\ UNCHANGED <<heap, args, values, failed, lostIn, stores>>
      /\ cell.items \in Seq(Objects)
      /\ r \in 1..n
      /\ stack' = Append(Append(below, t), act)
  BY PushShape DEF WInv
<1>2. /\ top.reached \in Nat /\ top.of \in Objects /\ cell = heap[top.of]
      /\ below \in Seq(Activations)
  BY <1>1, TopType, StackIs DEF WInv, IInv, cell
<1>3. n \in Nat /\ r \in Nat \ {0} /\ r <= n /\ n - r \in Nat
  <2>1. n \in Nat
    BY <1>1
  <2> HIDE DEF n
  <2> QED
    BY <1>1, <1>2, <2>1
<1>4. t \in Activations /\ Due(heap, t) = n - r
  <2>1. r \in Nat /\ r # 0
    BY <1>3
  <2> HIDE DEF r
  <2>2. t \in Activations
    BY <1>2, <2>1 DEF Activations
  <2> QED
    BY <1>2, <2>1, <2>2 DEF Due
<1>5. act \in Activations /\ Due(heap, act) = 1
  <2>1. cell.items[r] \in Objects
    <3> HIDE DEF r
    <3> QED
      BY <1>1
  <2> QED
    BY <2>1 DEF Activations, Due
<1>6. ASSUME NEW e \in Nat, Owed(heap, below, e)
      PROVE  Owed(heap', stack', e + (n - r) + 1) /\ e + (n - r) + 1 \in Nat
  <2> HIDE DEF t, act, n, r
  <2>1. Owed(heap, Append(below, t), e + (n - r))
    BY <1>2, <1>3, <1>4, <1>6, OwedAppend
  <2>2. Append(below, t) \in Seq(Activations) /\ e + (n - r) \in Nat
    BY <1>2, <1>3, <1>4, AppendProperties
  <2>3. Owed(heap, Append(Append(below, t), act), e + (n - r) + 1)
    <3>1. Due(heap, act) \in Nat
      BY <1>5
    <3>2. Owed(heap, Append(Append(below, t), act), e + (n - r) + Due(heap, act))
      BY <1>5, <2>1, <2>2, <3>1, OwedAppend
    <3> QED
      BY <1>5, <3>2
  <2> QED
    BY <1>1, <2>2, <2>3
<1>7. \A k \in 1..Len(values') : Missed(values'[k], 0)
  BY <1>1 DEF WInv, WholeInv
<1>8. \E d \in Nat : Owed(heap', stack', d) /\ Missed(part', d)
  <2>1. CASE dump_reference
    <3>1. top.reached = 0 /\ cell.kind = "reference" /\ part' = part
      BY <2>1 DEF dump_reference, At, Call
    <3>2. n = 1
      BY <1>2, <3>1 DEF WInv, IInv, ReferencesHold
    <3>3. Due(heap, top) = 1
      BY <3>1 DEF Due
    <3>4. PICK d \in Nat : Missed(part, d) /\ d - 1 \in Nat /\ Owed(heap, below, d - 1)
      BY <1>1, <3>3, RestOwed
    <3>5. (d - 1) + (n - r) + 1 = d
      BY <3>1, <3>2
    <3> HIDE DEF n, r
    <3> QED
      BY <1>6, <3>1, <3>4, <3>5
  <2>2. CASE dump_element
    <3>1. top.reached \in 1..(n - 1) /\ part' = part
      BY <2>2 DEF dump_element, Call
    <3>2. Due(heap, top) = n - top.reached
      BY <1>2, <1>3, <3>1 DEF Due
    <3>3. PICK d \in Nat : /\ Missed(part, d) /\ d - (n - top.reached) \in Nat
                           /\ Owed(heap, below, d - (n - top.reached))
      <4>1. Due(heap, top) \in Int
        BY <1>2, <1>3, <3>2
      <4> HIDE DEF n
      <4> QED
        BY <1>1, <3>2, <4>1, RestOwed
    <3>4. (d - (n - top.reached)) + (n - r) + 1 = d
      <4>1. n \in Nat
        BY <1>3
      <4> HIDE DEF n
      <4> QED
        BY <1>2, <4>1
    <3> HIDE DEF n, r
    <3> QED
      BY <1>6, <3>1, <3>3, <3>4
  <2>3. CASE dump_array
    <3>1. top.reached = 0 /\ part' = Append(part, [is |-> "array", size |-> n])
      BY <2>3 DEF dump_array, At, Emit
    <3>2. Due(heap, top) = 1
      BY <3>1 DEF Due
    <3>3. PICK d \in Nat : Missed(part, d) /\ d - 1 \in Nat /\ Owed(heap, below, d - 1)
      BY <1>1, <3>2, RestOwed
    <3>4. Missed(part', d - 1 + n)
      <4> DEFINE p == [is |-> "array", size |-> n]
      <4>1. p \in Parts /\ Announced(p) = n
        BY <1>3 DEF Parts, Announced
      <4>2. part \in Seq(Parts) /\ d \in Nat \ {0}
        BY <3>3 DEF WInv, IInv, TypeOK
      <4> HIDE DEF p, n
      <4> QED
        BY <3>1, <3>3, <4>1, <4>2, MissedAppend DEF p
    <3>5. (d - 1) + (n - r) + 1 = d - 1 + n
      <4>1. n \in Nat
        BY <1>3
      <4> HIDE DEF n
      <4> QED
        BY <3>1, <4>1
    <3> HIDE DEF n, r
    <3> QED
      BY <1>6, <3>3, <3>4, <3>5
  <2> QED
    BY <2>1, <2>2, <2>3
<1> QED
  BY <1>7, <1>8 DEF WholeInv

(* A failure leaves one part, UnknownValue, or no value at all. *)
LEMMA FailureWhole ==
  ASSUME WInv, ValueFails \/ StringFails \/ Overflow \/ FrameDumped \/ FrameFails
  PROVE  WholeInv'
<1>1. CASE ValueFails
  <2> DEFINE p == [is |-> "unknown", size |-> 0]
  <2>1. p \in Parts /\ Announced(p) = 0
    BY DEF Parts, Announced
  <2>2. UnknownValue = Append(<<>>, p)
    BY DEF UnknownValue
  <2>3. Missed(UnknownValue, 1 - 1 + 0) /\ UnknownValue \in Seq(Parts)
    <3>1. <<>> \in Seq(Parts) /\ 1 \in Nat \ {0}
      OBVIOUS
    <3> HIDE DEF p
    <3> QED
      BY <2>1, <2>2, <3>1, MissedNone, MissedAppend, AppendProperties
  <2>4. pc' = "frame" /\ values' = Append(values, UnknownValue)
    BY <1>1 DEF ValueFails
  <2>5. 1 - 1 + 0 = 0
    OBVIOUS
  <2>6. \A k \in 1..Len(values') : Missed(values'[k], 0)
    BY <2>3, <2>4, <2>5, AnotherWhole DEF WInv, IInv
  <2> QED
    BY <2>4, <2>6 DEF WholeInv
<1>2. CASE StringFails \/ Overflow \/ FrameDumped \/ FrameFails
  <2>1. pc' # "value" /\ values' = values
    BY <1>2 DEF StringFails, Overflow, LoseFrame, FrameDumped, FrameFails
  <2> QED
    BY <2>1 DEF WInv, WholeInv
<1> QED
  BY <1>1, <1>2

(* An argument begins with one activation, that owes all of it. *)
LEMMA BeginWhole ==
  ASSUME WInv, BeginArgument
  PROVE  WholeInv'
<1> DEFINE act == [of |-> args[Argument], reached |-> 0]
<1>1. stack' = <<act>> /\ part' = <<>> /\ values' = values /\ heap' = heap
  BY DEF BeginArgument, Activation
<1>2. act \in Activations
  <2>1. args \in Seq(Objects) /\ values \in Seq(Seq(Parts)) /\ Argument <= Len(args)
    BY DEF WInv, IInv, TypeOK, BeginArgument
  <2>2. Argument \in 1..Len(args)
    BY <2>1 DEF Argument
  <2> QED
    BY <2>1, <2>2 DEF Activations
<1>3. Due(heap, act) = 1
  BY DEF Due
<1>4. Owed(heap, Append(<<>>, act), 0 + 1)
  <2>1. <<>> \in Seq(Activations) /\ Owed(heap, <<>>, 0)
    BY OwedNone
  <2>2. Due(heap, act) \in Nat /\ 0 \in Nat
    BY <1>3
  <2> HIDE DEF act
  <2>3. Owed(heap, Append(<<>>, act), 0 + Due(heap, act))
    BY <1>2, <2>1, <2>2, OwedAppend
  <2> QED
    BY <1>3, <2>3
<1>5. Owed(heap', stack', 1) /\ Missed(part', 1)
  <2>1. Append(<<>>, act) = <<act>> /\ 0 + 1 = 1
    OBVIOUS
  <2> HIDE DEF act
  <2> QED
    BY <1>1, <1>4, <2>1, MissedNone
<1>6. \A k \in 1..Len(values') : Missed(values'[k], 0)
  BY <1>1 DEF WInv, WholeInv
<1> QED
  BY <1>5, <1>6 DEF WholeInv

(* A store does not change how much an object holds. *)
LEMMA StoreShape ==
  ASSUME IInv, NEW o \in Objects, NEW p \in Objects,
         NEW i \in 1..Len(heap[o].items), Store(o, i, p)
  PROVE  \A x \in Objects : Len(heap'[x].items) = Len(heap[x].items)
<1> DEFINE items == [heap[o].items EXCEPT ![i] = p]
           c == [heap[o] EXCEPT !.items = items]
<1>1. heap \in [Objects -> Cells] /\ heap[o] \in Cells /\ heap[o].items \in Seq(Objects)
  BY DEF IInv, TypeOK, Cells
<1>2. Len(items) = Len(heap[o].items)
  BY <1>1, ExceptSeq
<1>3. c.items = items
  <2> HIDE DEF items
  <2> QED
    BY <1>1 DEF Cells
<1>4. heap' = [heap EXCEPT ![o] = c]
  BY DEF Store
<1> HIDE DEF c, items
<1> QED
  BY <1>1, <1>2, <1>3, <1>4

(* Nor does it change what is owed, at any time. *)
LEMMA StoreWhole ==
  ASSUME WInv, IInv', Stores
  PROVE  WholeInv'
<1>0. PICK o \in Objects, p \in Objects : \E i \in 1..Len(heap[o].items) : Store(o, i, p)
  BY DEF Stores
<1>1. PICK i \in 1..Len(heap[o].items) : Store(o, i, p)
  BY <1>0
<1>2. \A x \in Objects : Len(heap'[x].items) = Len(heap[x].items)
  BY <1>1, StoreShape DEF WInv
<1>3. UNCHANGED <<pc, stack, part, values>>
  BY <1>1 DEF Store, walkVars
<1>4. heap \in [Objects -> Cells] /\ heap' \in [Objects -> Cells]
      /\ stack \in Seq(Activations)
  BY DEF WInv, IInv, TypeOK, Activations
<1>5. ASSUME NEW d \in Nat, Owed(heap, stack, d) PROVE Owed(heap', stack', d)
  BY <1>2, <1>3, <1>4, <1>5, OwedSame
<1> QED
  BY <1>3, <1>5 DEF WInv, WholeInv

LEMMA WholeInitial == Init => WholeInv
BY DEF Init, WholeInv

LEMMA WholeInductive == WInv /\ [Next]_vars => WInv'
<1> SUFFICES ASSUME WInv, [Next]_vars PROVE WInv'
  OBVIOUS
<1>1. IInv'
  BY Inductive DEF WInv
<1>2. CASE dump_frame
  <2>1. WholeInv'
    BY <1>2, LeafWhole, PushWhole, FailureWhole, BeginWhole DEF dump_frame, dump_object
  <2> QED
    BY <1>1, <2>1 DEF WInv
<1>3. CASE Stores
  BY <1>1, <1>3, StoreWhole DEF WInv
<1>4. CASE UNCHANGED vars
  <2>1. UNCHANGED <<heap, pc, stack, part, values>>
    BY <1>4 DEF vars, walkVars
  <2>2. WholeInv'
    BY <2>1 DEF WInv, WholeInv
  <2> QED
    BY <1>1, <2>2 DEF WInv
<1> QED
  BY <1>2, <1>3, <1>4 DEF Next

LEMMA WholeImplies == WInv => ValuesWhole
<1> SUFFICES ASSUME WInv PROVE ValuesWhole
  OBVIOUS
<1> SUFFICES ASSUME NEW k \in 1..Len(values)
             PROVE  \A n \in 0..Len(values[k]) :
                      Missing(values[k])[n] = 0 <=> n = Len(values[k])
  BY DEF ValuesWhole
<1>1. values[k] \in Seq(Parts) /\ Missed(values[k], 0)
  BY DEF WInv, IInv, TypeOK, WholeInv
<1> QED
  BY <1>1, WholeIsWhole

(* Whatever other threads store and whichever calls fail, each value the
   application gets is whole: every array in it is followed by as many values
   as it announces, and then nothing. *)
THEOREM ValuesAreWhole == Spec => []ValuesWhole
<1>1. Init => WInv
  BY Initial, WholeInitial DEF WInv
<1> HIDE DEF Init
<1> QED
  BY <1>1, WholeInductive, WholeImplies, PTL DEF Spec

-----------------------------------------------------------------------------
(* What has been dumped, activation by activation. *)

(* What has been dumped of an activation that has called for what it holds at
   the place it has reached: all before that. *)
Piece(h, a, i) == UpTo(h, a.of, Images(h)[MaxStack - i])[a.reached - 1]

(* What has been dumped of the activation on top. *)
Sofar(h, a, i) ==
  IF a.reached = 0 THEN <<>> ELSE UpTo(h, a.of, Images(h)[MaxStack - i])[a.reached]

(* c is what the first i activations have dumped, for each i. *)
Joins(h, s, c) ==
  /\ c \in [0..Len(s) -> Seq(Parts)]
  /\ c[0] = <<>>
  /\ \A i \in 1..Len(s) : c[i] = c[i - 1] \o Piece(h, s[i], i)

(* What has been dumped below the top, from the pieces of the activations. *)
Joined(h, s, parts) == \E c : Joins(h, s, c) /\ c[Len(s)] = parts

(* The first activation is of the argument, and each of the others of what the
   one below it holds at the place that one has reached. *)
Links(h, o, s) ==
  /\ s[1].of = o
  /\ \A i \in 1..(Len(s) - 1) :
       /\ s[i].reached \in 1..Len(Held(h, s[i].of))
       /\ s[i + 1].of = Held(h, s[i].of)[s[i].reached]

(* What has been dumped of the value of o is what the activations say. *)
Walked(h, o, s, parts) ==
  /\ Links(h, o, s)
  /\ \E front \in Seq(Activations), last \in Activations, c \in Seq(Parts) :
       /\ s = Append(front, last)
       /\ Joined(h, front, c)
       /\ parts = c \o Sofar(h, last, Len(s))

-----------------------------------------------------------------------------
(* The layer below an activation, and the image of an object from it. *)
LEMMA InnerType ==
  ASSUME NEW h \in [Objects -> Cells], NEW i \in 1..MaxStack
  PROVE  /\ Images(h)[MaxStack - i] \in [Objects -> Seq(Parts)]
         /\ \A o \in Objects : Images(h)[MaxStack - i + 1][o] =
              UpTo(h, o, Images(h)[MaxStack - i])[Len(Held(h, o))]
<1> DEFINE f == Images(h)
           V == [Objects -> Seq(Parts)]
<1>1. /\ f \in [0..MaxStack -> V]
      /\ \A n \in 1..MaxStack : f[n] = Layer(h, f[n - 1])
  BY ImagesDef
<1>2. /\ MaxStack - i \in 0..MaxStack /\ MaxStack - i + 1 \in 1..MaxStack
      /\ (MaxStack - i + 1) - 1 = MaxStack - i
  BY BoundsAssumption
<1> HIDE DEF f, V
<1>3. f[MaxStack - i] \in V /\ f[MaxStack - i + 1] = Layer(h, f[MaxStack - i])
  BY <1>1, <1>2
<1> USE DEF f, V
<1>4. Layer(h, Images(h)[MaxStack - i]) =
        [o \in Objects |-> UpTo(h, o, Images(h)[MaxStack - i])[Len(Held(h, o))]]
  BY DEF Layer
<1> QED
  BY <1>3, <1>4

LEMMA UpToType ==
  ASSUME NEW h \in [Objects -> Cells], NEW o \in Objects, NEW i \in 1..MaxStack,
         NEW j \in 0..Len(Held(h, o))
  PROVE  UpTo(h, o, Images(h)[MaxStack - i])[j] \in Seq(Parts)
<1> DEFINE inner == Images(h)[MaxStack - i]
           f == UpTo(h, o, inner)
           V == Seq(Parts)
           n == Len(Held(h, o))
<1>1. inner \in [Objects -> V]
  BY InnerType
<1>2. f \in [0..n -> V]
  <2> HIDE DEF inner
  <2> QED
    BY <1>1, UpToDef
<1>3. j \in 0..n
  OBVIOUS
<1> HIDE DEF f, V, n
<1>4. f[j] \in V
  BY <1>2, <1>3
<1> QED
  BY <1>4 DEF f, V

LEMMA JoinedNone == ASSUME NEW h PROVE Joined(h, <<>>, <<>>)
<1> DEFINE c == [n \in 0..0 |-> <<>>]
<1>1. Joins(h, <<>>, c) /\ c[Len(<<>>)] = <<>>
  BY DEF Joins
<1> QED
  BY <1>1 DEF Joined

LEMMA JoinedEmpty ==
  ASSUME NEW h, NEW parts, Joined(h, <<>>, parts)
  PROVE  parts = <<>>
BY DEF Joined, Joins

(* One activation more joins its piece. *)
LEMMA JoinedAppend ==
  ASSUME NEW h, NEW s \in Seq(Activations), NEW parts \in Seq(Parts),
         Joined(h, s, parts), NEW a \in Activations,
         Piece(h, a, Len(s) + 1) \in Seq(Parts)
  PROVE  /\ Joined(h, Append(s, a), parts \o Piece(h, a, Len(s) + 1))
         /\ parts \o Piece(h, a, Len(s) + 1) \in Seq(Parts)
<1> DEFINE L == Len(s)
           more == Append(s, a)
           last == parts \o Piece(h, a, L + 1)
           V == Seq(Parts)
<1>1. L \in Nat /\ Len(more) = L + 1 /\ more[L + 1] = a
      /\ \A i \in 1..L : more[i] = s[i]
  BY AppendProperties
<1>2. PICK c : Joins(h, s, c) /\ c[L] = parts
  BY DEF Joined
<1>3. /\ c \in [0..L -> V] /\ c[0] = <<>>
      /\ \A i \in 1..L : c[i] = c[i - 1] \o Piece(h, s[i], i)
  BY <1>2 DEF Joins
<1>4. last \in V
  BY ConcatProperties
<1> HIDE DEF L, more, V
<1> DEFINE g == [n \in 0..(L + 1) |-> IF n <= L THEN c[n] ELSE last]
<1>6. /\ g \in [0..(L + 1) -> V] /\ g[0] = <<>> /\ g[L + 1] = last
      /\ \A n \in 0..L : g[n] = c[n]
  <2> HIDE DEF last
  <2> QED
    BY <1>1, <1>3, <1>4
<1>7. ASSUME NEW n \in 1..(L + 1)
      PROVE  g[n] = g[n - 1] \o Piece(h, more[n], n)
  <2> HIDE DEF g
  <2>1. CASE n \in 1..L
    <3>1. g[n] = c[n] /\ g[n - 1] = c[n - 1] /\ more[n] = s[n]
      BY <1>1, <1>6, <2>1
    <3> QED
      BY <1>3, <2>1, <3>1
  <2>2. CASE n = L + 1
    <3>1. g[n] = last /\ g[n - 1] = parts /\ more[n] = a
      BY <1>1, <1>2, <1>6, <2>2
    <3> QED
      BY <2>2, <3>1
  <2> QED
    BY <1>1, <2>1, <2>2
<1> HIDE DEF g, last
<1>9. Joins(h, more, g)
  BY <1>1, <1>6, <1>7 DEF Joins, V
<1>11. Joined(h, more, last)
  BY <1>1, <1>6, <1>9 DEF Joined
<1> QED
  BY <1>4, <1>11 DEF more, last, L, V

(* Without the last activation its piece is missing. *)
LEMMA JoinedBelow ==
  ASSUME NEW h, NEW s \in Seq(Activations), NEW parts, NEW a \in Activations,
         Joined(h, Append(s, a), parts)
  PROVE  \E c \in Seq(Parts) : /\ Joined(h, s, c)
                               /\ parts = c \o Piece(h, a, Len(s) + 1)
<1> DEFINE L == Len(s)
           more == Append(s, a)
           V == Seq(Parts)
<1>1. L \in Nat /\ Len(more) = L + 1 /\ more[L + 1] = a
      /\ \A i \in 1..L : more[i] = s[i]
  BY AppendProperties
<1>2. PICK c : Joins(h, more, c) /\ c[L + 1] = parts
  BY <1>1 DEF Joined
<1>3. /\ c \in [0..(L + 1) -> V] /\ c[0] = <<>>
      /\ \A i \in 1..(L + 1) : c[i] = c[i - 1] \o Piece(h, more[i], i)
  BY <1>1, <1>2 DEF Joins
<1> HIDE DEF L, more, V
<1> DEFINE g == [n \in 0..L |-> c[n]]
<1>4. c[L + 1] = c[L] \o Piece(h, a, L + 1)
  <2>1. L + 1 \in 1..(L + 1) /\ (L + 1) - 1 = L
    BY <1>1
  <2> QED
    BY <1>1, <1>3, <2>1
<1>5. c[L] \in V
  BY <1>1, <1>3
<1>6. g \in [0..L -> V] /\ g[0] = <<>> /\ g[L] = c[L]
  BY <1>1, <1>3
<1>7. ASSUME NEW i \in 1..L PROVE g[i] = g[i - 1] \o Piece(h, s[i], i)
  <2>1. g[i] = c[i] /\ g[i - 1] = c[i - 1] /\ more[i] = s[i] /\ i \in 1..(L + 1)
    BY <1>1
  <2> HIDE DEF g
  <2> QED
    BY <1>3, <2>1
<1> HIDE DEF g
<1>8. Joins(h, s, g)
  BY <1>6, <1>7 DEF Joins, L, V
<1> QED
  BY <1>2, <1>4, <1>5, <1>6, <1>8 DEF Joined, L, V

-----------------------------------------------------------------------------
LEMMA LinksOne ==
  ASSUME NEW h, NEW a PROVE Links(h, a.of, <<a>>)
BY DEF Links

(* The top comes further, and there is a new one for what it holds there. *)
LEMMA LinksAppend ==
  ASSUME NEW h, NEW o, NEW s \in Seq(Activations), NEW a \in Activations,
         Links(h, o, Append(s, a)), NEW t \in Activations, t.of = a.of,
         t.reached \in 1..Len(Held(h, t.of)), NEW b \in Activations,
         b.of = Held(h, t.of)[t.reached]
  PROVE  Links(h, o, Append(Append(s, t), b))
<1> DEFINE L == Len(s)
           p == Append(s, a)
           q == Append(s, t)
           r == Append(q, b)
<1>1. q \in Seq(Activations)
  BY AppendProperties
<1>2. /\ L \in Nat /\ Len(p) = L + 1 /\ p[L + 1] = a /\ \A i \in 1..L : p[i] = s[i]
      /\ Len(q) = L + 1 /\ q[L + 1] = t /\ \A i \in 1..L : q[i] = s[i]
  BY AppendProperties
<1>3. /\ Len(r) = L + 2 /\ r[L + 2] = b /\ \A i \in 1..(L + 1) : r[i] = q[i]
  <2> HIDE DEF q
  <2>1. Len(r) = Len(q) + 1 /\ r[Len(q) + 1] = b /\ \A i \in 1..Len(q) : r[i] = q[i]
    BY <1>1, AppendProperties
  <2>2. L + 1 + 1 = L + 2
    BY <1>2
  <2> HIDE DEF r, L
  <2> QED
    BY <1>2, <2>1, <2>2
<1>4. /\ p[1].of = o
      /\ \A i \in 1..L : /\ p[i].reached \in 1..Len(Held(h, p[i].of))
                         /\ p[i + 1].of = Held(h, p[i].of)[p[i].reached]
  <2>1. (L + 1) - 1 = L
    BY <1>2
  <2> HIDE DEF p, L
  <2> QED
    BY <1>2, <2>1 DEF Links, p
<1> HIDE DEF L, p, q, r
<1>5. /\ r[L + 1] = t /\ r[L + 2] = b /\ \A i \in 1..L : r[i] = p[i]
      /\ r[L + 1].of = p[L + 1].of
  BY <1>2, <1>3
<1>6. r[1].of = o
  <2>1. CASE L = 0
    BY <1>4, <1>5, <2>1
  <2>2. CASE L # 0
    BY <1>2, <1>4, <1>5, <2>2
  <2> QED
    BY <2>1, <2>2
<1>7. ASSUME NEW i \in 1..(L + 1)
      PROVE  /\ r[i].reached \in 1..Len(Held(h, r[i].of))
             /\ r[i + 1].of = Held(h, r[i].of)[r[i].reached]
  <2>1. CASE i = L + 1
    <3>1. i + 1 = L + 2
      BY <1>2, <2>1
    <3> QED
      BY <1>5, <2>1, <3>1
  <2>2. CASE i \in 1..L
    <3>1. r[i] = p[i]
      BY <1>5, <2>2
    <3>2. r[i + 1].of = p[i + 1].of
      <4>1. i + 1 \in 1..L \/ i = L
        BY <1>2, <2>2
      <4> QED
        BY <1>5, <4>1
    <3> QED
      BY <1>4, <2>2, <3>1, <3>2
  <2> QED
    BY <1>2, <2>1, <2>2
<1>8. Len(r) - 1 = L + 1
  BY <1>2, <1>3
<1>9. Links(h, o, r)
  BY <1>6, <1>7, <1>8 DEF Links
<1> QED
  BY <1>9 DEF r, q

(* The last activation is of what the one below it holds. *)
LEMMA LinksBelow ==
  ASSUME NEW h, NEW o, NEW s \in Seq(Activations), NEW b \in Activations,
         NEW a \in Activations, Links(h, o, Append(Append(s, b), a))
  PROVE  /\ Links(h, o, Append(s, b))
         /\ b.reached \in 1..Len(Held(h, b.of))
         /\ a.of = Held(h, b.of)[b.reached]
<1> DEFINE L == Len(s)
           q == Append(s, b)
           r == Append(q, a)
<1>1. q \in Seq(Activations)
  BY AppendProperties
<1>2. L \in Nat /\ Len(q) = L + 1 /\ q[L + 1] = b
  BY AppendProperties
<1>3. /\ Len(r) = L + 2 /\ r[L + 2] = a /\ \A i \in 1..(L + 1) : r[i] = q[i]
  <2> HIDE DEF q
  <2>1. Len(r) = Len(q) + 1 /\ r[Len(q) + 1] = a /\ \A i \in 1..Len(q) : r[i] = q[i]
    BY <1>1, AppendProperties
  <2>2. L + 1 + 1 = L + 2
    BY <1>2
  <2> HIDE DEF r, L
  <2> QED
    BY <1>2, <2>1, <2>2
<1>4. /\ r[1].of = o
      /\ \A i \in 1..(L + 1) : /\ r[i].reached \in 1..Len(Held(h, r[i].of))
                               /\ r[i + 1].of = Held(h, r[i].of)[r[i].reached]
  <2>1. (L + 2) - 1 = L + 1
    BY <1>2
  <2> HIDE DEF r, L
  <2> QED
    BY <1>3, <2>1 DEF Links, r
<1> HIDE DEF L, q, r
<1>5. Links(h, o, q)
  <2>1. q[1].of = o
    BY <1>2, <1>3, <1>4
  <2>2. ASSUME NEW i \in 1..L
        PROVE  /\ q[i].reached \in 1..Len(Held(h, q[i].of))
               /\ q[i + 1].of = Held(h, q[i].of)[q[i].reached]
    <3>1. r[i] = q[i] /\ r[i + 1] = q[i + 1] /\ i \in 1..(L + 1)
      BY <1>2, <1>3
    <3> QED
      BY <1>4, <3>1
  <2>3. Len(q) - 1 = L
    BY <1>2
  <2> QED
    BY <2>1, <2>2, <2>3 DEF Links
<1>6. b.reached \in 1..Len(Held(h, b.of)) /\ a.of = Held(h, b.of)[b.reached]
  <2>1. r[L + 1] = b /\ r[(L + 1) + 1] = a /\ L + 1 \in 1..(L + 1)
    <3>1. (L + 1) + 1 = L + 2 /\ L + 1 \in 1..(L + 1)
      BY <1>2
    <3> QED
      BY <1>2, <1>3, <3>1
  <2> QED
    BY <1>4, <2>1
<1> QED
  BY <1>5, <1>6 DEF q

-----------------------------------------------------------------------------
(* The steps of an account. *)

(* The account when what is held is entered. *)
LEMMA WalkPush ==
  ASSUME NEW h \in [Objects -> Cells], NEW o, NEW front \in Seq(Activations),
         NEW a \in Activations, NEW c \in Seq(Parts), NEW r \in 1..Len(Held(h, a.of)),
         Len(front) + 1 \in 1..MaxStack,
         Links(h, o, Append(front, a)), Joined(h, front, c)
  PROVE  Walked(h, o,
                Append(Append(front, [of |-> a.of, reached |-> r]),
                       [of |-> Held(h, a.of)[r], reached |-> 0]),
                c \o UpTo(h, a.of, Images(h)[MaxStack - (Len(front) + 1)])[r - 1])
<1> DEFINE t == [of |-> a.of, reached |-> r]
           b == [of |-> Held(h, a.of)[r], reached |-> 0]
           k == Len(front) + 1
           up == UpTo(h, a.of, Images(h)[MaxStack - k])[r - 1]
           q == Append(front, t)
<1>1. a.of \in Objects
  BY DEF Activations
<1>2. Held(h, a.of) \in Seq(Objects) /\ Len(Held(h, a.of)) \in Nat
  BY <1>1, OwnType
<1>3. Held(h, a.of)[r] \in Objects /\ r \in Nat \ {0}
  BY <1>2
<1>4. t \in Activations /\ b \in Activations /\ t.of = a.of /\ t.reached = r
      /\ b.of = Held(h, a.of)[r] /\ b.reached = 0
  BY <1>1, <1>3 DEF Activations
<1>5. up \in Seq(Parts)
  <2>1. r - 1 \in 0..Len(Held(h, a.of))
    BY <1>2
  <2> HIDE DEF k
  <2>2. k \in 1..MaxStack
    BY DEF k
  <2> QED
    BY <1>1, <2>1, <2>2, UpToType
<1>6. Piece(h, t, k) = up
  BY DEF Piece
<1> HIDE DEF t, b, up
<1>7. Joined(h, q, c \o up) /\ c \o up \in Seq(Parts)
  BY <1>4, <1>5, <1>6, JoinedAppend
<1>8. Links(h, o, Append(q, b))
  BY <1>4, LinksAppend
<1>9. q \in Seq(Activations)
  BY <1>4, AppendProperties
<1>10. Sofar(h, b, Len(Append(q, b))) = <<>>
  BY <1>4 DEF Sofar
<1>11. c \o up = (c \o up) \o <<>>
  BY <1>7, ConcatEmptySeq
<1> HIDE DEF q
<1>12. c \o up = (c \o up) \o Sofar(h, b, Len(Append(q, b)))
  BY <1>10, <1>11
<1>13. Walked(h, o, Append(q, b), c \o up)
  BY <1>4, <1>7, <1>8, <1>9, <1>12 DEF Walked
<1> QED
  BY <1>13 DEF q, t, b, up

(* The account when an activation has dumped the image of its object. *)
LEMMA WalkReturn ==
  ASSUME NEW h \in [Objects -> Cells], NEW o, NEW front \in Seq(Activations),
         front # <<>>, NEW a \in Activations, NEW c \in Seq(Parts),
         Len(front) + 1 \in 1..MaxStack,
         Links(h, o, Append(front, a)), Joined(h, front, c)
  PROVE  Walked(h, o, front, c \o Images(h)[MaxStack - (Len(front) + 1) + 1][a.of])
<1>1. PICK s \in Seq(Activations), b \in Activations : front = Append(s, b)
  BY SequenceEmptyOrAppend
<1> DEFINE k == Len(s) + 1
           inner == Images(h)[MaxStack - k]
           r == b.reached
           f == UpTo(h, b.of, inner)
           held == Held(h, b.of)
<1>2. Len(front) = k /\ k \in Nat /\ k # 0
  BY <1>1, AppendProperties
<1>3. /\ Links(h, o, front) /\ r \in 1..Len(held) /\ a.of = held[r]
  BY <1>1, LinksBelow
<1>4. PICK d \in Seq(Parts) : Joined(h, s, d) /\ c = d \o Piece(h, b, k)
  BY <1>1, JoinedBelow
<1>5. b.of \in Objects /\ a.of \in Objects
  BY DEF Activations
<1>6. held \in Seq(Objects) /\ Len(held) \in Nat
  BY <1>5, OwnType
<1> HIDE DEF k, held
<1>7. k \in 1..MaxStack /\ MaxStack - (k + 1) + 1 = MaxStack - k
  BY <1>2, BoundsAssumption
<1>8. inner \in [Objects -> Seq(Parts)]
  BY <1>7, InnerType
<1>9. f[r] = f[r - 1] \o inner[a.of]
  <2> HIDE DEF inner, r, f
  <2> QED
    BY <1>3, <1>5, <1>8, UpToDef DEF held, f
<1>10. f[r - 1] \in Seq(Parts) /\ inner[a.of] \in Seq(Parts)
  <2>1. r - 1 \in 0..Len(held)
    BY <1>3, <1>6
  <2>2. f[r - 1] \in Seq(Parts)
    BY <1>5, <1>7, <2>1, UpToType DEF held
  <2>3. inner[a.of] \in Seq(Parts)
    <3> DEFINE V == Seq(Parts)
    <3> HIDE DEF inner, V
    <3>1. inner \in [Objects -> V]
      BY <1>8 DEF V
    <3>2. inner[a.of] \in V
      BY <1>5, <3>1
    <3> QED
      BY <3>2 DEF V
  <2> QED
    BY <2>2, <2>3
<1>11. Piece(h, b, k) = f[r - 1]
  BY DEF Piece
<1>12. Sofar(h, b, Len(front)) = f[r]
  <2>1. r # 0
    BY <1>3
  <2> QED
    BY <1>2, <2>1 DEF Sofar
<1> HIDE DEF f, inner
<1>13. c \o inner[a.of] = d \o f[r]
  <2> DEFINE x == f[r - 1]
             y == inner[a.of]
  <2>1. x \in Seq(Parts) /\ y \in Seq(Parts)
    BY <1>10
  <2>2. c = d \o x /\ f[r] = x \o y
    BY <1>4, <1>9, <1>11
  <2> HIDE DEF x, y
  <2>3. (d \o x) \o y = d \o (x \o y)
    BY <2>1, ConcatAssociative
  <2> QED
    BY <2>2, <2>3 DEF y
<1>14. Walked(h, o, front, c \o inner[a.of])
  BY <1>1, <1>3, <1>4, <1>12, <1>13 DEF Walked
<1> QED
  BY <1>2, <1>7, <1>14 DEF inner

(* The account when the last activation has. *)
LEMMA WalkDone ==
  ASSUME NEW h \in [Objects -> Cells], NEW o, NEW a \in Activations, NEW c,
         Links(h, o, Append(<<>>, a)), Joined(h, <<>>, c)
  PROVE  c \o Images(h)[MaxStack - 1 + 1][a.of] = Image(h)[o]
<1>1. c = <<>>
  BY JoinedEmpty
<1>2. a.of = o
  BY DEF Links
<1>3. MaxStack - 1 + 1 = MaxStack /\ 1 \in 1..MaxStack
  BY BoundsAssumption
<1>4. a.of \in Objects
  BY DEF Activations
<1>5. Images(h)[MaxStack][a.of] \in Seq(Parts)
  <2>1. Len(Held(h, a.of)) \in 0..Len(Held(h, a.of))
    BY <1>4, OwnType
  <2>2. UpTo(h, a.of, Images(h)[MaxStack - 1])[Len(Held(h, a.of))] \in Seq(Parts)
    BY <1>3, <1>4, <2>1, UpToType
  <2>3. Images(h)[MaxStack - 1 + 1][a.of] =
          UpTo(h, a.of, Images(h)[MaxStack - 1])[Len(Held(h, a.of))]
    BY <1>3, <1>4, InnerType
  <2> QED
    BY <1>3, <2>2, <2>3
<1>6. <<>> \o Images(h)[MaxStack][a.of] = Images(h)[MaxStack][a.of]
  BY <1>5, ConcatEmptySeq
<1> QED
  BY <1>1, <1>2, <1>3, <1>6 DEF Image

-----------------------------------------------------------------------------
(* One value for each argument dumped. *)
SizesInv ==
  /\ failed \subseteq 1..Len(values)
  /\ Len(values) <= Len(args)
  /\ pc = "value" => Len(values) < Len(args)
  /\ pc = "dumped" => Len(values) = Len(args)

ValueExact(v, k) ==
  v = IF k \in failed THEN UnknownValue ELSE Image(heap)[args[k]]

ExactInv ==
  stores = 0 =>
    /\ \A k \in 1..Len(values) : ValueExact(values[k], k)
    /\ pc = "value" => Walked(heap, args[Argument], stack, part)

EInv == IInv /\ SizesInv /\ ExactInv

LEMMA SizesStep ==
  ASSUME IInv, SizesInv, [Next]_vars
  PROVE  SizesInv'
<1> DEFINE n == Len(values)
<1>1. n \in Nat /\ Len(args) \in Nat /\ values \in Seq(Seq(Parts)) /\ failed \in SUBSET Nat
  BY DEF IInv, TypeOK
<1>2. ASSUME NEW v, values' = Append(values, v), pc = "value", pc' = "frame",
             failed' \subseteq failed \cup {n + 1}, args' = args
      PROVE  SizesInv'
  <2>1. Len(values') = n + 1
    BY <1>1, <1>2
  <2> HIDE DEF n
  <2>2. n < Len(args) /\ failed \subseteq 1..n
    BY <1>2 DEF SizesInv, n
  <2>3. failed' \subseteq 1..(n + 1)
    BY <1>1, <1>2, <2>2
  <2>4. n + 1 <= Len(args)
    BY <1>1, <2>2
  <2> QED
    BY <1>2, <2>1, <2>3, <2>4 DEF SizesInv
<1>3. ASSUME NEW dumped, pc = "value", Return(dumped)
      PROVE  SizesInv'
  <2>1. CASE below = <<>>
    BY <1>2, <1>3, <2>1 DEF Return
  <2>2. CASE below # <<>>
    BY <1>3, <2>2 DEF Return, SizesInv
  <2> QED
    BY <2>1, <2>2
<1>4. ASSUME UNCHANGED <<args, values, failed>>, pc' \in {pc, "failed"}
      PROVE  SizesInv'
  BY <1>4 DEF SizesInv
<1>5. CASE dump_null \/ dump_string \/ dump_object_raw \/ dump_matrix
           \/ dump_empty_array \/ EndHolder
  <2>1. \E dumped : pc = "value" /\ Return(dumped)
    BY <1>5 DEF dump_null, dump_string, dump_object_raw, dump_matrix,
       dump_empty_array, EndHolder, At
  <2> QED
    BY <1>3, <2>1
<1>6. CASE dump_reference \/ dump_element \/ dump_array
  BY <1>4, <1>6, PushShape
<1>7. CASE StringFails \/ Overflow \/ FrameFails
  BY <1>4, <1>7 DEF StringFails, Overflow, LoseFrame, FrameFails
<1>8. CASE ValueFails
  BY <1>2, <1>8 DEF ValueFails, Argument
<1>9. CASE BeginArgument
  <2>1. UNCHANGED <<args, values, failed>> /\ pc' = "value" /\ n + 1 <= Len(args)
    BY <1>9 DEF BeginArgument, Argument
  <2>2. n < Len(args)
    BY <1>1, <2>1
  <2> QED
    BY <2>1, <2>2 DEF SizesInv
<1>10. CASE FrameDumped
  <2>1. UNCHANGED <<args, values, failed>> /\ pc' = "dumped" /\ n + 1 > Len(args)
    BY <1>10 DEF FrameDumped, Argument
  <2>2. n <= Len(args)
    BY DEF SizesInv
  <2>3. n = Len(args)
    BY <1>1, <2>1, <2>2
  <2> QED
    BY <2>1, <2>3 DEF SizesInv
<1>11. CASE Stores
  BY <1>4, <1>11 DEF Stores, Store, walkVars
<1>12. CASE UNCHANGED vars
  BY <1>4, <1>12 DEF vars, walkVars
<1> QED
  BY <1>5, <1>6, <1>7, <1>8, <1>9, <1>10, <1>11, <1>12
     DEF Next, dump_frame, dump_object

-----------------------------------------------------------------------------

(* An argument has been dumped, or has failed. *)
LEMMA AnotherExact ==
  ASSUME EInv, pc = "value", pc' = "frame", UNCHANGED <<heap, args, stores>>,
         NEW v \in Seq(Parts), values' = Append(values, v), NEW n, n = Argument,
         \/ failed' = failed \cup {n} /\ v = UnknownValue
         \/ failed' = failed /\ (stores = 0 => v = Image(heap)[args[n]])
  PROVE  ExactInv'
<1>1. /\ values \in Seq(Seq(Parts)) /\ Len(values) \in Nat
      /\ failed \subseteq 1..Len(values) /\ n = Len(values) + 1
  BY DEF EInv, IInv, TypeOK, SizesInv, Argument
<1>2. /\ Len(values') = Len(values) + 1 /\ values'[n] = v
      /\ \A k \in 1..Len(values) : values'[k] = values[k]
  BY <1>1, AppendProperties
<1>3. n \notin failed
  BY <1>1
<1> SUFFICES ASSUME stores' = 0, NEW k \in 1..Len(values')
             PROVE  ValueExact(values[k], k)'
  BY DEF ExactInv
<1>4. CASE k = n
  BY <1>2, <1>3, <1>4 DEF ValueExact
<1>5. CASE k # n
  <2>1. k \in 1..Len(values)
    BY <1>1, <1>2, <1>5
  <2>2. ValueExact(values[k], k)
    BY <2>1 DEF EInv, ExactInv
  <2>3. values'[k] = values[k] /\ (k \in failed' <=> k \in failed)
    BY <1>2, <1>5, <2>1
  <2> QED
    BY <2>2, <2>3 DEF ValueExact
<1> QED
  BY <1>4, <1>5

(* An activation that has dumped all of its value returns. *)
LEMMA ReturnExact ==
  ASSUME EInv, pc = "value", NEW c \in Seq(Parts), NEW dumped \in Seq(Parts),
         Links(heap, args[Argument], stack), Joined(heap, below, c),
         dumped = c \o Images(heap)[MaxStack - Len(stack) + 1][top.of],
         part' = dumped, Return(dumped)
  PROVE  ExactInv'
<1>1. /\ below \in Seq(Activations) /\ top \in Activations
      /\ stack = Append(below, top) /\ Len(stack) \in 1..MaxStack
      /\ Len(below) + 1 = Len(stack)
  <2>1. Len(stack) \in Nat
    BY TopType DEF EInv, IInv
  <2> QED
    BY <2>1, StackIs DEF EInv, IInv
<1>2. heap \in [Objects -> Cells] /\ UNCHANGED <<heap, args, failed, stores>>
      /\ stack' = below
  BY DEF EInv, IInv, TypeOK, Return
<1>3. CASE below = <<>>
  <2>1. pc' = "frame" /\ values' = Append(values, dumped)
    BY <1>3 DEF Return
  <2>2. Len(stack) = 1
    BY <1>1, <1>3
  <2>3. dumped = Image(heap)[args[Argument]]
    <3>1. Links(heap, args[Argument], Append(<<>>, top)) /\ Joined(heap, <<>>, c)
      BY <1>1, <1>3
    <3>2. c \o Images(heap)[MaxStack - 1 + 1][top.of] = Image(heap)[args[Argument]]
      BY <1>1, <1>2, <3>1, WalkDone
    <3> QED
      BY <2>2, <3>2
  <2> QED
    BY <1>2, <2>1, <2>3, AnotherExact
<1>4. CASE below # <<>>
  <2>1. UNCHANGED <<pc, values>>
    BY <1>4 DEF Return
  <2>2. Walked(heap, args[Argument], below, dumped)
    BY <1>1, <1>2, <1>4, WalkReturn
  <2>3. Argument' = Argument
    BY <2>1 DEF Argument
  <2> HIDE DEF Argument
  <2>4. Walked(heap, args[Argument], stack, part)'
    BY <1>2, <2>2, <2>3
  <2>5. ASSUME stores' = 0, NEW k \in 1..Len(values') PROVE ValueExact(values[k], k)'
    BY <1>2, <2>1, <2>5 DEF EInv, ExactInv, ValueExact
  <2> QED
    BY <2>4, <2>5 DEF ExactInv
<1> QED
  BY <1>3, <1>4

(* What the activations say of the part dumped so far. *)
LEMMA WalkedNow ==
  ASSUME EInv, pc = "value", stores = 0
  PROVE  /\ Links(heap, args[Argument], stack)
         /\ \E c \in Seq(Parts) : /\ Joined(heap, below, c)
                                  /\ part = c \o Sofar(heap, top, Len(stack))
<1>1. Walked(heap, args[Argument], stack, part)
  BY DEF EInv, ExactInv
<1>2. PICK front \in Seq(Activations), last \in Activations, c \in Seq(Parts) :
        /\ stack = Append(front, last)
        /\ Joined(heap, front, c)
        /\ part = c \o Sofar(heap, last, Len(stack))
  BY <1>1 DEF Walked
<1>3. below \in Seq(Activations) /\ top \in Activations /\ stack = Append(below, top)
  BY StackIs DEF EInv, IInv
<1>4. front = below /\ last = top
  <2>1. Append(front, last) = Append(below, top) <=> front = below /\ last = top
    BY <1>3, AppendInjective
  <2> QED
    BY <1>2, <1>3, <2>1
<1> QED
  BY <1>1, <1>2, <1>4 DEF Walked

(* Once there was a store nothing is claimed. *)
LEMMA StoresKept ==
  ASSUME ExactInv, stores # 0, stores \in Nat, stores' = stores
  PROVE  ExactInv'
BY DEF ExactInv

(* Values that hold nothing are dumped as their own part. *)
LEMMA LeafExact ==
  ASSUME EInv,
         \/ dump_null \/ dump_string \/ dump_object_raw \/ dump_matrix
         \/ dump_empty_array
  PROVE  ExactInv'
<1>0. pc = "value" /\ cell \in Cells /\ top.of \in Objects /\ cell = heap[top.of]
      /\ heap \in [Objects -> Cells] /\ top.reached = 0
      /\ Len(stack) \in 1..MaxStack
  BY TopType DEF dump_null, dump_string, dump_object_raw, dump_matrix, dump_empty_array,
     At, EInv, IInv, TypeOK, cell
<1>1. Return(part') /\ UNCHANGED stores
  BY DEF dump_null, dump_string, dump_object_raw, dump_matrix, dump_empty_array, Return
<1>2. stores \in Nat
  BY BoundsAssumption DEF EInv, IInv, TypeOK
<1>3. CASE stores # 0
  BY <1>1, <1>2, <1>3, StoresKept DEF EInv
<1>4. CASE stores = 0
  <2>1. /\ Links(heap, args[Argument], stack)
        /\ \E c \in Seq(Parts) : /\ Joined(heap, below, c)
                                 /\ part = c \o Sofar(heap, top, Len(stack))
    BY <1>0, <1>4, WalkedNow
  <2>2. PICK c \in Seq(Parts) : /\ Joined(heap, below, c)
                                 /\ part = c \o Sofar(heap, top, Len(stack))
    BY <2>1
  <2>3. part = c
    BY <1>0, <2>2, ConcatEmptySeq DEF Sofar
  <2>4. Held(heap, top.of) = <<>>
    BY <1>0 DEF Held, dump_null, dump_string, dump_object_raw, dump_matrix,
       dump_empty_array, At
  <2>5. Images(heap)[MaxStack - Len(stack) + 1][top.of] = Own(heap, top.of)
    <3> DEFINE inner == Images(heap)[MaxStack - Len(stack)]
               o == top.of
    <3>1. /\ inner \in [Objects -> Seq(Parts)]
          /\ Images(heap)[MaxStack - Len(stack) + 1][o] =
               UpTo(heap, o, inner)[Len(Held(heap, o))]
      <4> DEFINE i == Len(stack)
      <4>1. i \in 1..MaxStack
        BY <1>0
      <4> HIDE DEF i
      <4>2. /\ Images(heap)[MaxStack - i] \in [Objects -> Seq(Parts)]
            /\ \A x \in Objects : Images(heap)[MaxStack - i + 1][x] =
                 UpTo(heap, x, Images(heap)[MaxStack - i])[Len(Held(heap, x))]
        BY <1>0, <4>1, InnerType
      <4> QED
        BY <1>0, <4>2 DEF i
    <3>2. UpTo(heap, o, inner)[0] = Own(heap, o)
      <4> HIDE DEF inner
      <4> QED
        BY <1>0, <3>1, UpToDef
    <3>3. Len(Held(heap, o)) = 0
      BY <2>4
    <3> HIDE DEF inner
    <3> QED
      BY <3>1, <3>2, <3>3
  <2>6. Own(heap, top.of) \in Seq(Parts)
    BY <1>0, OwnType
  <2>7. \E p \in Parts : part' = Append(part, p) /\ Own(heap, top.of) = <<p>>
    <3>1. ASSUME NEW is \in {"null", "array", "string", "raw"}, NEW size \in Nat
          PROVE  [is |-> is, size |-> size] \in Parts
      BY DEF Parts
    <3>2. CASE dump_null
      BY <1>0, <3>1, <3>2 DEF dump_null, At, Emit, Own
    <3>3. CASE dump_string
      BY <1>0, <3>1, <3>3 DEF dump_string, At, Emit, Own
    <3>4. CASE dump_object_raw
      <4>1. (IF cell.size > ULONG_MAX THEN 0 ELSE cell.size) \in Nat
        BY <1>0 DEF Cells
      <4> QED
        BY <1>0, <3>1, <3>4, <4>1 DEF dump_object_raw, At, Emit, Own
    <3>5. CASE dump_matrix
      BY <1>0, <3>1, <3>5 DEF dump_matrix, At, Emit, Own
    <3>6. CASE dump_empty_array
      BY <1>0, <3>1, <3>6 DEF dump_empty_array, At, Emit, Own
    <3> QED
      BY <3>2, <3>3, <3>4, <3>5, <3>6
  <2>8. part' = c \o Images(heap)[MaxStack - Len(stack) + 1][top.of]
    BY <2>3, <2>5, <2>7, AppendIsConcat
  <2>9. part' \in Seq(Parts)
    BY <2>5, <2>6, <2>8, ConcatProperties
  <2> QED
    BY <1>0, <1>1, <2>1, <2>2, <2>8, <2>9, ReturnExact
<1> QED
  BY <1>3, <1>4

(* All that was held has been dumped. *)
LEMMA EndHolderExact ==
  ASSUME EInv, EndHolder
  PROVE  ExactInv'
<1>0. /\ pc = "value" /\ cell \in Cells /\ top.of \in Objects /\ cell = heap[top.of]
      /\ heap \in [Objects -> Cells] /\ Len(stack) \in 1..MaxStack
      /\ part \in Seq(Parts)
  BY TopType DEF EndHolder, EInv, IInv, TypeOK, cell
<1>1. part' = part /\ Return(part) /\ UNCHANGED stores
      /\ top.reached # 0 /\ top.reached = Len(cell.items)
      /\ cell.kind \in {"reference", "array"}
  <2>1. top.reached \in Nat
    BY <1>0, TopType DEF EInv, IInv
  <2> QED
    BY <2>1 DEF EndHolder, Return
<1>2. stores \in Nat
  BY BoundsAssumption DEF EInv, IInv, TypeOK
<1>3. CASE stores # 0
  BY <1>1, <1>2, <1>3, StoresKept DEF EInv
<1>4. CASE stores = 0
  <2>1. /\ Links(heap, args[Argument], stack)
        /\ \E c \in Seq(Parts) : /\ Joined(heap, below, c)
                                 /\ part = c \o Sofar(heap, top, Len(stack))
    BY <1>0, <1>4, WalkedNow
  <2>2. PICK c \in Seq(Parts) : /\ Joined(heap, below, c)
                                 /\ part = c \o Sofar(heap, top, Len(stack))
    BY <2>1
  <2>3. Held(heap, top.of) = cell.items
    BY <1>0, <1>1 DEF Held
  <2>4. Images(heap)[MaxStack - Len(stack) + 1][top.of] =
          UpTo(heap, top.of, Images(heap)[MaxStack - Len(stack)])[Len(cell.items)]
    <3> DEFINE i == Len(stack)
    <3>1. i \in 1..MaxStack
      BY <1>0
    <3> HIDE DEF i
    <3>2. \A x \in Objects : Images(heap)[MaxStack - i + 1][x] =
             UpTo(heap, x, Images(heap)[MaxStack - i])[Len(Held(heap, x))]
      BY <1>0, <3>1, InnerType
    <3> QED
      BY <1>0, <2>3, <3>2 DEF i
  <2>5. part = c \o Images(heap)[MaxStack - Len(stack) + 1][top.of]
    BY <1>1, <2>2, <2>4 DEF Sofar
  <2> QED
    BY <1>0, <1>1, <2>1, <2>2, <2>5, ReturnExact
<1> QED
  BY <1>3, <1>4

(* What is held next is entered. *)
LEMMA PushExact ==
  ASSUME EInv, dump_reference \/ dump_element \/ dump_array
  PROVE  ExactInv'
<1> DEFINE r == top.reached + 1
           o == top.of
           k == Len(below) + 1
           inner == Images(heap)[MaxStack - k]
<1>1. /\ pc = "value" /\ pc' = pc
      /\ UNCHANGED <<heap, args, values, failed, stores>>
      /\ cell.kind \in {"reference", "array"}
      /\ r \in 1..Len(cell.items)
      /\ stack' = Append(Append(below, [of |-> o, reached |-> r]),
                         [of |-> cell.items[r], reached |-> 0])
  BY PushShape DEF EInv
<1>2. /\ cell \in Cells /\ o \in Objects /\ cell = heap[o] /\ top.reached \in Nat
      /\ heap \in [Objects -> Cells] /\ part \in Seq(Parts) /\ stores \in Nat
  BY <1>1, TopType, BoundsAssumption DEF EInv, IInv, TypeOK, cell
<1>3. /\ below \in Seq(Activations) /\ top \in Activations
      /\ stack = Append(below, top) /\ k = Len(stack) /\ k \in 1..MaxStack
  <2>1. Len(stack) \in Nat
    BY <1>1, TopType DEF EInv, IInv
  <2> QED
    BY <1>1, <2>1, StackIs DEF EInv, IInv
<1>4. Held(heap, o) = cell.items
  BY <1>1, <1>2 DEF Held
<1>5. inner \in [Objects -> Seq(Parts)]
  <2> HIDE DEF k
  <2> QED
    BY <1>2, <1>3, InnerType
<1>6. UpTo(heap, o, inner)[0] = Own(heap, o)
  <2> HIDE DEF inner
  <2> QED
    BY <1>2, <1>5, UpToDef
<1>7. CASE stores # 0
  BY <1>1, <1>2, <1>7, StoresKept DEF EInv
<1>8. CASE stores = 0
  <2>1. /\ Links(heap, args[Argument], stack)
        /\ \E c \in Seq(Parts) : /\ Joined(heap, below, c)
                                 /\ part = c \o Sofar(heap, top, Len(stack))
    BY <1>1, <1>8, WalkedNow
  <2>2. PICK c \in Seq(Parts) : /\ Joined(heap, below, c)
                                 /\ part = c \o Sofar(heap, top, Len(stack))
    BY <2>1
  <2>3. part' = c \o UpTo(heap, o, inner)[r - 1]
    <3>1. ASSUME top.reached = 0 PROVE part = c /\ r - 1 = 0
      BY <2>2, <3>1, ConcatEmptySeq DEF Sofar
    <3>2. CASE dump_reference
      <4>1. top.reached = 0 /\ cell.kind = "reference" /\ part' = part
        BY <3>2 DEF dump_reference, At, Call
      <4>2. Own(heap, o) = <<>>
        BY <1>2, <4>1 DEF Own
      <4> QED
        BY <1>6, <3>1, <4>1, <4>2, ConcatEmptySeq
    <3>3. CASE dump_element
      <4>1. top.reached # 0 /\ part' = part
        BY <1>2, <3>3 DEF dump_element, Call
      <4>2. r - 1 = top.reached
        BY <1>2
      <4> QED
        BY <1>3, <2>2, <4>1, <4>2 DEF Sofar
    <3>4. CASE dump_array
      <4>1. /\ top.reached = 0 /\ cell.kind = "array"
            /\ part' = Append(part, [is |-> "array", size |-> Len(cell.items)])
        BY <3>4 DEF dump_array, At, Emit
      <4>2. Own(heap, o) = <<[is |-> "array", size |-> Len(cell.items)]>>
        BY <1>2, <4>1 DEF Own
      <4>3. [is |-> "array", size |-> Len(cell.items)] \in Parts
        <5>1. Len(cell.items) \in Nat
          BY <1>2 DEF Cells
        <5> QED
          BY <5>1 DEF Parts
      <4>4. part' = part \o Own(heap, o)
        BY <1>2, <4>1, <4>2, <4>3, AppendIsConcat
      <4> QED
        BY <1>6, <3>1, <4>1, <4>4
    <3> QED
      BY <3>2, <3>3, <3>4
  <2>4. Walked(heap, args[Argument], stack', part')
    <3>1. r \in 1..Len(Held(heap, o))
      BY <1>1, <1>4
    <3> HIDE DEF r
    <3>2. Walked(heap, args[Argument],
                 Append(Append(below, [of |-> o, reached |-> r]),
                        [of |-> Held(heap, o)[r], reached |-> 0]),
                 c \o UpTo(heap, o, inner)[r - 1])
      BY <1>2, <1>3, <2>1, <2>2, <3>1, WalkPush
    <3> QED
      BY <1>1, <1>4, <2>3, <3>2
  <2>5. Argument' = Argument
    BY <1>1 DEF Argument
  <2>6. Walked(heap, args[Argument], stack, part)'
    <3> HIDE DEF Argument
    <3> QED
      BY <1>1, <2>4, <2>5
  <2>7. ASSUME NEW j \in 1..Len(values') PROVE ValueExact(values[j], j)'
    BY <1>1, <1>8 DEF EInv, ExactInv, ValueExact
  <2> QED
    BY <2>6, <2>7 DEF ExactInv
<1> QED
  BY <1>7, <1>8

(* Failures, stores and the rest of the frame. *)
LEMMA OtherExact ==
  ASSUME EInv,
         \/ ValueFails \/ StringFails \/ Overflow \/ FrameDumped \/ FrameFails
         \/ Stores \/ UNCHANGED vars
  PROVE  ExactInv'
<1>1. CASE ValueFails
  <2>1. UnknownValue \in Seq(Parts)
    <3>1. [is |-> "unknown", size |-> 0] \in Parts
      BY DEF Parts
    <3> QED
      BY <3>1 DEF UnknownValue
  <2> QED
    BY <1>1, <2>1, AnotherExact DEF ValueFails
<1>2. CASE StringFails \/ Overflow \/ FrameDumped \/ FrameFails
  <2>1. pc' # "value" /\ UNCHANGED <<heap, args, values, failed, stores>>
    BY <1>2 DEF StringFails, Overflow, LoseFrame, FrameDumped, FrameFails
  <2> QED
    BY <2>1 DEF EInv, ExactInv, ValueExact
<1>3. CASE Stores
  <2>1. stores' = stores + 1
    BY <1>3 DEF Stores, Store
  <2>2. stores \in Nat
    BY BoundsAssumption DEF EInv, IInv, TypeOK
  <2>3. stores' # 0
    BY <2>1, <2>2
  <2> QED
    BY <2>3 DEF ExactInv
<1>4. CASE UNCHANGED vars
  <2>1. UNCHANGED <<heap, args, pc, stack, part, values, failed, stores>>
    BY <1>4 DEF vars, walkVars
  <2> QED
    BY <2>1 DEF EInv, ExactInv, ValueExact, Argument
<1> QED
  BY <1>1, <1>2, <1>3, <1>4

(* An argument begins with nothing dumped. *)
LEMMA BeginExact ==
  ASSUME EInv, BeginArgument
  PROVE  ExactInv'
<1> DEFINE act == [of |-> args[Argument], reached |-> 0]
<1>1. /\ stack' = <<act>> /\ part' = <<>>
      /\ UNCHANGED <<heap, args, values, failed, stores>>
  BY DEF BeginArgument, Activation
<1>2. act \in Activations
  <2>1. args \in Seq(Objects) /\ values \in Seq(Seq(Parts)) /\ Argument <= Len(args)
    BY DEF EInv, IInv, TypeOK, BeginArgument
  <2>2. Argument \in 1..Len(args)
    BY <2>1 DEF Argument
  <2> QED
    BY <2>1, <2>2 DEF Activations
<1>3. Links(heap, args[Argument], <<act>>)
  <2>1. act.of = args[Argument]
    OBVIOUS
  <2> HIDE DEF act
  <2> QED
    BY <2>1, LinksOne
<1>4. Walked(heap, args[Argument], <<act>>, <<>>)
  <2>1. <<>> \in Seq(Activations) /\ <<act>> = Append(<<>>, act) /\ <<>> \in Seq(Parts)
    OBVIOUS
  <2>2. Joined(heap, <<>>, <<>>)
    BY JoinedNone
  <2>3. <<>> = <<>> \o Sofar(heap, act, Len(<<act>>))
    BY DEF Sofar
  <2> HIDE DEF act
  <2> QED
    BY <1>2, <1>3, <2>1, <2>2, <2>3 DEF Walked
<1>5. Argument' = Argument
  BY <1>1 DEF Argument
<1>6. Walked(heap, args[Argument], stack, part)'
  <2> HIDE DEF Argument, act
  <2> QED
    BY <1>1, <1>4, <1>5
<1>7. ASSUME stores' = 0, NEW j \in 1..Len(values') PROVE ValueExact(values[j], j)'
  BY <1>1, <1>7 DEF EInv, ExactInv, ValueExact
<1> QED
  BY <1>6, <1>7 DEF ExactInv

LEMMA ExactInitial == Init => EInv
<1> SUFFICES ASSUME Init PROVE EInv
  OBVIOUS
<1>1. IInv
  BY Initial
<1>2. values = <<>> /\ failed = {} /\ pc = "frame"
  BY DEF Init
<1>3. Len(args) \in Nat
  BY <1>1 DEF IInv, TypeOK
<1>4. SizesInv
  BY <1>2, <1>3 DEF SizesInv
<1>5. ExactInv
  BY <1>2 DEF ExactInv
<1> QED
  BY <1>1, <1>4, <1>5 DEF EInv

LEMMA ExactInductive == EInv /\ [Next]_vars => EInv'
<1> SUFFICES ASSUME EInv, [Next]_vars PROVE EInv'
  OBVIOUS
<1>1. IInv' /\ SizesInv'
  BY Inductive, SizesStep DEF EInv
<1>2. ExactInv'
  <2>1. CASE dump_frame
    BY <2>1, LeafExact, EndHolderExact, PushExact, OtherExact, BeginExact
       DEF dump_frame, dump_object
  <2>2. CASE Stores \/ UNCHANGED vars
    BY <2>2, OtherExact
  <2> QED
    BY <2>1, <2>2 DEF Next
<1> QED
  BY <1>1, <1>2 DEF EInv

(* With no store meanwhile, the value of every argument that did not fail is
   the value in the heap, and a dumped frame has them all. *)
THEOREM ValuesAreExact == Spec => []ValuesExact
<1>1. EInv => ValuesExact
  BY DEF EInv, SizesInv, ExactInv, ValueExact, ValuesExact
<1> HIDE DEF Init
<1> QED
  BY <1>1, ExactInitial, ExactInductive, PTL DEF Spec
=============================================================================
