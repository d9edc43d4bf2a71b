-------------------------- MODULE ThunkCodeProofs --------------------------
(***************************************************************************)
(* What ThunkCode says of the thunks for a few numbers of arguments holds  *)
(* of the thunk for any number a byte can give: TypeOK, CallAligned and    *)
(* CallerRestored.  ArgumentsForwarded holds of the thunks for no more     *)
(* than four, the logger's among them, and is false of the others.         *)
(*                                                                         *)
(* The code generated for n arguments is a sequence whose length depends   *)
(* on n.  Layout says which instruction is at which place of it, Where     *)
(* reads that the other way, from an instruction to its place.  The        *)
(* invariant gives the stack pointer as a function of the place, Sp, and   *)
(* with it the addresses the instructions read and write.                  *)
(***************************************************************************)
EXTENDS ThunkCode, SequenceTheorems, TLAPS

-----------------------------------------------------------------------------
(* The code, instruction by instruction. *)

Instructions ==
  [op : {"push", "mov", "store", "pushmem", "reserve", "object", "load", "callback",
         "call", "restore", "pop", "ret"},
   reg : Registers, disp : Int]

Counts == 0..255

(* How many arguments are put aside, pushed and loaded again. *)
A(n) == Least(n, 4)
V(n) == viastack(n)
F(n) == Least(n, 3)

(* The three numbers, and how they add up to n. *)
LEMMA Sizes ==
  ASSUME NEW n \in Counts
  PROVE  /\ A(n) \in 0..4 /\ F(n) \in 0..3 /\ V(n) \in 0..252
         /\ n = F(n) + V(n) /\ A(n) <= n /\ F(n) <= A(n)
         /\ V(n) > 0 => A(n) = 4 /\ F(n) = 3
         /\ A(n) = 4 => V(n) > 0
         /\ V(n) = 0 => A(n) = n /\ F(n) = n
BY DEF Counts, A, V, F, Least, viastack

(* A function on 1..m is a sequence of length m. *)
LEMMA SeqOfLength ==
  ASSUME NEW S, NEW m \in Nat, NEW f \in [1..m -> S]
  PROVE  f \in Seq(S) /\ Len(f) = m
BY SeqDef

(* One sequence of instructions of length l, and then one of length m. *)
Joint(s, l, t, m) ==
  /\ s \o t \in Seq(Instructions) /\ Len(s \o t) = l + m
  /\ \A i \in 1..l : (s \o t)[i] = s[i]
  /\ \A i \in 1..m : (s \o t)[l + i] = t[i]

(* Where the instructions of two sequences are in the one made of both. *)
LEMMA ConcatAt ==
  ASSUME NEW s \in Seq(Instructions), NEW t \in Seq(Instructions), NEW l, NEW m,
         Len(s) = l, Len(t) = m
  PROVE  Joint(s, l, t, m)
<1>2. ASSUME NEW i \in 1..l PROVE (s \o t)[i] = s[i]
  BY ConcatProperties
<1>3. ASSUME NEW i \in 1..m PROVE (s \o t)[l + i] = t[i]
  BY ConcatProperties
<1> QED
  BY <1>2, <1>3, ConcatProperties DEF Joint

(* The instructions of a thunk for n arguments, one after the other. *)
Layout(n, c) ==
  /\ c \in Seq(Instructions)
  /\ Len(c) = 9 + A(n) + V(n) + F(n)
  /\ c[1] = Instr("push", "rbp", 0)
  /\ c[2] = Instr("mov", "rbp", 0)
  /\ \A i \in 1..A(n) : c[2 + i] = Instr("store", ArgumentRegisters[i], Aside(i))
  /\ \A i \in 1..V(n) :
       c[2 + A(n) + i] = Instr("pushmem", "rbp", -32 - 8 * V(n) + 8 * (i - 1))
  /\ c[3 + A(n) + V(n)] = Instr("reserve", "rsp", 32)
  /\ c[4 + A(n) + V(n)] = Instr("object", "rcx", 0)
  /\ \A i \in 1..F(n) :
       c[4 + A(n) + V(n) + i] = Instr("load", ArgumentRegisters[i + 1], Aside(i))
  /\ c[5 + A(n) + V(n) + F(n)] = Instr("callback", "rax", 0)
  /\ c[6 + A(n) + V(n) + F(n)] = Instr("call", "rax", 0)
  /\ c[7 + A(n) + V(n) + F(n)] = Instr("restore", "rsp", 0)
  /\ c[8 + A(n) + V(n) + F(n)] = Instr("pop", "rbp", 0)
  /\ c[9 + A(n) + V(n) + F(n)] = Instr("ret", "rsp", 0)

(* Instr makes instructions. *)
LEMMA InstrType ==
  ASSUME NEW op \in {"push", "mov", "store", "pushmem", "reserve", "object", "load",
                     "callback", "call", "restore", "pop", "ret"},
         NEW r \in Registers, NEW d \in Int
  PROVE  Instr(op, r, d) \in Instructions
BY DEF Instr, Instructions

(* The argument registers are registers, and none that the thunk needs. *)
LEMMA ArgumentRegistersType ==
  \A i \in 1..4 : /\ ArgumentRegisters[i] \in Registers
                  /\ ArgumentRegisters[i] \notin {"rsp", "rbp", "rax"}
<1> SUFFICES ASSUME NEW i \in 1..4
             PROVE  ArgumentRegisters[i] \in Registers
                    /\ ArgumentRegisters[i] \notin {"rsp", "rbp", "rax"}
  OBVIOUS
<1>1. i = 1 \/ i = 2 \/ i = 3 \/ i = 4
  OBVIOUS
<1> QED
  BY <1>1 DEF ArgumentRegisters, Registers

(* create_x64_thunk generates that layout. *)
LEMMA LayoutOf == ASSUME NEW n \in Counts PROVE Layout(n, create_x64_thunk(n))
<1> DEFINE a == A(n)
           v == V(n)
           f == F(n)
           object == <<Instr("object", "rcx", 0)>>
<1>0. a \in 0..4 /\ v \in 0..252 /\ f \in 0..3
  BY Sizes
<1>1. /\ prolog \in Seq(Instructions) /\ Len(prolog) = 2
      /\ prolog[1] = Instr("push", "rbp", 0) /\ prolog[2] = Instr("mov", "rbp", 0)
  <2>1. "rbp" \in Registers
    BY DEF Registers
  <2> QED
    BY <2>1, InstrType DEF prolog
<1>2. /\ spills(n) \in Seq(Instructions) /\ Len(spills(n)) = a
      /\ \A i \in 1..a : spills(n)[i] = Instr("store", ArgumentRegisters[i], Aside(i))
  <2>1. \A i \in 1..a : Instr("store", ArgumentRegisters[i], Aside(i)) \in Instructions
    <3> TAKE i \in 1..a
    <3>1. i \in 1..4 /\ Aside(i) \in Int
      BY <1>0 DEF Aside
    <3> QED
      BY <3>1, ArgumentRegistersType, InstrType
  <2>2. spills(n) = [i \in 1..a |-> Instr("store", ArgumentRegisters[i], Aside(i))]
    BY DEF spills, A
  <2>3. spills(n) \in [1..a -> Instructions]
    BY <2>1, <2>2
  <2> HIDE DEF a
  <2> QED
    BY <1>0, <2>2, <2>3, SeqOfLength
<1>3. /\ pushes(n) \in Seq(Instructions) /\ Len(pushes(n)) = v
      /\ \A i \in 1..v :
           pushes(n)[i] = Instr("pushmem", "rbp", -32 - 8 * v + 8 * (i - 1))
  <2>1. \A i \in 1..v :
          Instr("pushmem", "rbp", -32 - 8 * v + 8 * (i - 1)) \in Instructions
    <3> TAKE i \in 1..v
    <3>1. -32 - 8 * v + 8 * (i - 1) \in Int /\ "rbp" \in Registers
      BY <1>0 DEF Registers
    <3> QED
      BY <3>1, InstrType
  <2>2. pushes(n) = [i \in 1..v |-> Instr("pushmem", "rbp", -32 - 8 * v + 8 * (i - 1))]
    BY DEF pushes, V
  <2>3. pushes(n) \in [1..v -> Instructions]
    BY <2>1, <2>2
  <2> HIDE DEF v
  <2> QED
    BY <1>0, <2>2, <2>3, SeqOfLength
<1>4. /\ reserve \in Seq(Instructions) /\ Len(reserve) = 1
      /\ reserve[1] = Instr("reserve", "rsp", 32)
  <2>1. "rsp" \in Registers
    BY DEF Registers
  <2> QED
    BY <2>1, InstrType DEF reserve
<1>5. /\ object \in Seq(Instructions) /\ Len(object) = 1
      /\ object[1] = Instr("object", "rcx", 0)
  <2>1. "rcx" \in Registers
    BY DEF Registers
  <2> QED
    BY <2>1, InstrType
<1>6. /\ fetches(n) \in Seq(Instructions) /\ Len(fetches(n)) = f
      /\ \A i \in 1..f :
           fetches(n)[i] = Instr("load", ArgumentRegisters[i + 1], Aside(i))
  <2>1. \A i \in 1..f :
          Instr("load", ArgumentRegisters[i + 1], Aside(i)) \in Instructions
    <3> TAKE i \in 1..f
    <3>1. i + 1 \in 1..4 /\ Aside(i) \in Int
      BY <1>0 DEF Aside
    <3> QED
      BY <3>1, ArgumentRegistersType, InstrType
  <2>2. fetches(n) = [i \in 1..f |-> Instr("load", ArgumentRegisters[i + 1], Aside(i))]
    BY DEF fetches, F
  <2>3. fetches(n) \in [1..f -> Instructions]
    BY <2>1, <2>2
  <2> HIDE DEF f
  <2> QED
    BY <1>0, <2>2, <2>3, SeqOfLength
<1>7. /\ call_callback \in Seq(Instructions) /\ Len(call_callback) = 2
      /\ call_callback[1] = Instr("callback", "rax", 0)
      /\ call_callback[2] = Instr("call", "rax", 0)
  <2>1. "rax" \in Registers
    BY DEF Registers
  <2> QED
    BY <2>1, InstrType DEF call_callback
<1>8. /\ epilog \in Seq(Instructions) /\ Len(epilog) = 3
      /\ epilog[1] = Instr("restore", "rsp", 0) /\ epilog[2] = Instr("pop", "rbp", 0)
      /\ epilog[3] = Instr("ret", "rsp", 0)
  <2>1. "rbp" \in Registers /\ "rsp" \in Registers
    BY DEF Registers
  <2> QED
    BY <2>1, InstrType DEF epilog
<1> DEFINE s2 == prolog \o spills(n)
           s3 == s2 \o pushes(n)
           s4 == s3 \o reserve
           s5 == s4 \o object
           s6 == s5 \o fetches(n)
           s7 == s6 \o call_callback
           c == s7 \o epilog
<1>9. create_x64_thunk(n) = c
  BY DEF create_x64_thunk
<1> HIDE DEF a, v, f, object, c
<1> SUFFICES Layout(n, c)
  BY <1>9
<1>12. /\ s2 \in Seq(Instructions) /\ Len(s2) = 2 + a
       /\ \A i \in 1..2 : s2[i] = prolog[i]
       /\ \A i \in 1..a : s2[2 + i] = spills(n)[i]
  <2>1. Joint(prolog, 2, spills(n), a)
    BY <1>1, <1>2, ConcatAt
  <2> QED
    BY <2>1 DEF Joint, s2
<1> HIDE DEF s2
<1>13. /\ s3 \in Seq(Instructions) /\ Len(s3) = 2 + a + v
       /\ \A i \in 1..(2 + a) : s3[i] = s2[i]
       /\ \A i \in 1..v : s3[2 + a + i] = pushes(n)[i]
  <2>1. Joint(s2, 2 + a, pushes(n), v)
    BY <1>3, <1>12, ConcatAt
  <2> QED
    BY <2>1 DEF Joint, s3
<1> HIDE DEF s3
<1>14. /\ s4 \in Seq(Instructions) /\ Len(s4) = 2 + a + v + 1
       /\ \A i \in 1..(2 + a + v) : s4[i] = s3[i]
       /\ \A i \in 1..1 : s4[2 + a + v + i] = reserve[i]
  <2>1. Joint(s3, 2 + a + v, reserve, 1)
    BY <1>4, <1>13, ConcatAt
  <2> QED
    BY <2>1 DEF Joint, s4
<1> HIDE DEF s4
<1>15. /\ s5 \in Seq(Instructions) /\ Len(s5) = 2 + a + v + 1 + 1
       /\ \A i \in 1..(2 + a + v + 1) : s5[i] = s4[i]
       /\ \A i \in 1..1 : s5[2 + a + v + 1 + i] = object[i]
  <2>1. Joint(s4, 2 + a + v + 1, object, 1)
    BY <1>5, <1>14, ConcatAt
  <2> QED
    BY <2>1 DEF Joint, s5
<1> HIDE DEF s5
<1>16. /\ s6 \in Seq(Instructions) /\ Len(s6) = 2 + a + v + 1 + 1 + f
       /\ \A i \in 1..(2 + a + v + 1 + 1) : s6[i] = s5[i]
       /\ \A i \in 1..f : s6[2 + a + v + 1 + 1 + i] = fetches(n)[i]
  <2>1. Joint(s5, 2 + a + v + 1 + 1, fetches(n), f)
    BY <1>6, <1>15, ConcatAt
  <2> QED
    BY <2>1 DEF Joint, s6
<1> HIDE DEF s6
<1>17. /\ s7 \in Seq(Instructions) /\ Len(s7) = 2 + a + v + 1 + 1 + f + 2
       /\ \A i \in 1..(2 + a + v + 1 + 1 + f) : s7[i] = s6[i]
       /\ \A i \in 1..2 : s7[2 + a + v + 1 + 1 + f + i] = call_callback[i]
  <2>1. Joint(s6, 2 + a + v + 1 + 1 + f, call_callback, 2)
    BY <1>7, <1>16, ConcatAt
  <2> QED
    BY <2>1 DEF Joint, s7
<1> HIDE DEF s7
<1>18. /\ c \in Seq(Instructions) /\ Len(c) = 2 + a + v + 1 + 1 + f + 2 + 3
       /\ \A i \in 1..(2 + a + v + 1 + 1 + f + 2) : c[i] = s7[i]
       /\ \A i \in 1..3 : c[2 + a + v + 1 + 1 + f + 2 + i] = epilog[i]
  <2>1. Joint(s7, 2 + a + v + 1 + 1 + f + 2, epilog, 3)
    BY <1>8, <1>17, ConcatAt
  <2> QED
    BY <2>1 DEF Joint, c
<1> HIDE DEF c
<1>20. ASSUME NEW i \in 1..(2 + a + v + 1 + 1 + f + 2)
       PROVE  /\ c[i] = s7[i]
              /\ i <= 2 + a + v + 1 + 1 + f => c[i] = s6[i]
              /\ i <= 2 + a + v + 1 + 1 => c[i] = s5[i]
              /\ i <= 2 + a + v + 1 => c[i] = s4[i]
              /\ i <= 2 + a + v => c[i] = s3[i]
              /\ i <= 2 + a => c[i] = s2[i]
              /\ i <= 2 => c[i] = prolog[i]
  <2>1. c[i] = s7[i]
    BY <1>18
  <2>2. ASSUME i <= 2 + a + v + 1 + 1 + f PROVE c[i] = s6[i]
    BY <1>0, <1>17, <2>1, <2>2
  <2>3. ASSUME i <= 2 + a + v + 1 + 1 PROVE c[i] = s5[i]
    BY <1>0, <1>16, <2>2, <2>3
  <2>4. ASSUME i <= 2 + a + v + 1 PROVE c[i] = s4[i]
    BY <1>0, <1>15, <2>3, <2>4
  <2>5. ASSUME i <= 2 + a + v PROVE c[i] = s3[i]
    <3>1. i <= 2 + a + v + 1 /\ i \in 1..(2 + a + v)
      BY <1>0, <2>5
    <3> QED
      BY <1>14, <2>4, <3>1
  <2>6. ASSUME i <= 2 + a PROVE c[i] = s2[i]
    <3>1. i <= 2 + a + v /\ i \in 1..(2 + a)
      BY <1>0, <2>6
    <3> QED
      BY <1>13, <2>5, <3>1
  <2>7. ASSUME i <= 2 PROVE c[i] = prolog[i]
    BY <1>0, <1>12, <2>6, <2>7
  <2> QED
    BY <2>1, <2>2, <2>3, <2>4, <2>5, <2>6, <2>7
<1>21. c[1] = prolog[1] /\ c[2] = prolog[2]
  BY <1>0, <1>20
<1>22. ASSUME NEW i \in 1..a PROVE c[2 + i] = spills(n)[i]
  BY <1>0, <1>12, <1>20
<1>23. ASSUME NEW i \in 1..v PROVE c[2 + a + i] = pushes(n)[i]
  BY <1>0, <1>13, <1>20
<1>24. c[3 + a + v] = reserve[1]
  <2>1. 2 + a + v + 1 = 3 + a + v /\ 1 \in 1..1
    BY <1>0
  <2> QED
    BY <1>0, <1>14, <1>20, <2>1
<1>25. c[4 + a + v] = object[1]
  <2>1. 2 + a + v + 1 + 1 = 4 + a + v /\ 1 \in 1..1
    BY <1>0
  <2> QED
    BY <1>0, <1>15, <1>20, <2>1
<1>26. ASSUME NEW i \in 1..f PROVE c[4 + a + v + i] = fetches(n)[i]
  <2>1. 2 + a + v + 1 + 1 + i = 4 + a + v + i
    BY <1>0
  <2> QED
    BY <1>0, <1>16, <1>20, <2>1
<1>27. c[5 + a + v + f] = call_callback[1] /\ c[6 + a + v + f] = call_callback[2]
  <2>1. /\ 2 + a + v + 1 + 1 + f + 1 = 5 + a + v + f /\ 1 \in 1..2
        /\ 2 + a + v + 1 + 1 + f + 2 = 6 + a + v + f /\ 2 \in 1..2
    BY <1>0
  <2> QED
    BY <1>0, <1>17, <1>20, <2>1
<1>28. /\ c[7 + a + v + f] = epilog[1] /\ c[8 + a + v + f] = epilog[2]
       /\ c[9 + a + v + f] = epilog[3]
  <2>1. /\ 2 + a + v + 1 + 1 + f + 2 + 1 = 7 + a + v + f /\ 1 \in 1..3
        /\ 2 + a + v + 1 + 1 + f + 2 + 2 = 8 + a + v + f /\ 2 \in 1..3
        /\ 2 + a + v + 1 + 1 + f + 2 + 3 = 9 + a + v + f /\ 3 \in 1..3
    BY <1>0
  <2> QED
    BY <1>18, <2>1
<1>29. Len(c) = 9 + a + v + f
  <2>1. 2 + a + v + 1 + 1 + f + 2 + 3 = 9 + a + v + f
    BY <1>0
  <2> QED
    BY <1>18, <2>1
<1> QED
  BY <1>1, <1>2, <1>3, <1>4, <1>5, <1>6, <1>7, <1>8, <1>18, <1>21, <1>22, <1>23,
     <1>24, <1>25, <1>26, <1>27, <1>28, <1>29 DEF Layout, a, v, f

(* Where each kind of instruction is. *)
LEMMA Where ==
  ASSUME NEW n \in Counts, NEW c, Layout(n, c), NEW i \in 1..Len(c)
  PROVE  /\ c[i].op = "push" => i = 1 /\ c[i].reg = "rbp"
         /\ c[i].op = "mov" => i = 2
         /\ c[i].op = "store" =>
              \E j \in 1..A(n) : /\ i = 2 + j /\ c[i].reg = ArgumentRegisters[j]
                                 /\ c[i].disp = Aside(j)
         /\ c[i].op = "pushmem" =>
              \E j \in 1..V(n) : /\ i = 2 + A(n) + j
                                 /\ c[i].disp = -32 - 8 * V(n) + 8 * (j - 1)
         /\ c[i].op = "reserve" => i = 3 + A(n) + V(n) /\ c[i].disp = 32
         /\ c[i].op = "object" => i = 4 + A(n) + V(n) /\ c[i].reg = "rcx"
         /\ c[i].op = "load" =>
              \E j \in 1..F(n) : /\ i = 4 + A(n) + V(n) + j
                                 /\ c[i].reg = ArgumentRegisters[j + 1]
                                 /\ c[i].disp = Aside(j)
         /\ c[i].op = "callback" => i = 5 + A(n) + V(n) + F(n) /\ c[i].reg = "rax"
         /\ c[i].op = "call" => i = 6 + A(n) + V(n) + F(n)
         /\ c[i].op = "restore" => i = 7 + A(n) + V(n) + F(n)
         /\ c[i].op = "pop" => i = 8 + A(n) + V(n) + F(n) /\ c[i].reg = "rbp"
         /\ c[i].op = "ret" => i = 9 + A(n) + V(n) + F(n)
<1> DEFINE a == A(n)
           v == V(n)
           f == F(n)
           G == /\ c[i].op = "push" => i = 1 /\ c[i].reg = "rbp"
                /\ c[i].op = "mov" => i = 2
                /\ c[i].op = "store" =>
                     \E j \in 1..a : /\ i = 2 + j /\ c[i].reg = ArgumentRegisters[j]
                                     /\ c[i].disp = Aside(j)
                /\ c[i].op = "pushmem" =>
                     \E j \in 1..v : /\ i = 2 + a + j
                                     /\ c[i].disp = -32 - 8 * v + 8 * (j - 1)
                /\ c[i].op = "reserve" => i = 3 + a + v /\ c[i].disp = 32
                /\ c[i].op = "object" => i = 4 + a + v /\ c[i].reg = "rcx"
                /\ c[i].op = "load" =>
                     \E j \in 1..f : /\ i = 4 + a + v + j
                                     /\ c[i].reg = ArgumentRegisters[j + 1]
                                     /\ c[i].disp = Aside(j)
                /\ c[i].op = "callback" => i = 5 + a + v + f /\ c[i].reg = "rax"
                /\ c[i].op = "call" => i = 6 + a + v + f
                /\ c[i].op = "restore" => i = 7 + a + v + f
                /\ c[i].op = "pop" => i = 8 + a + v + f /\ c[i].reg = "rbp"
                /\ c[i].op = "ret" => i = 9 + a + v + f
<1>0. a \in 0..4 /\ v \in 0..252 /\ f \in 0..3
  BY Sizes
<1>1. /\ Len(c) = 9 + a + v + f
      /\ c[1] = Instr("push", "rbp", 0) /\ c[2] = Instr("mov", "rbp", 0)
  BY DEF Layout
<1>2. \A j \in 1..a : c[2 + j] = Instr("store", ArgumentRegisters[j], Aside(j))
  BY DEF Layout
<1>3. \A j \in 1..v : c[2 + a + j] = Instr("pushmem", "rbp", -32 - 8 * v + 8 * (j - 1))
  BY DEF Layout
<1>4. /\ c[3 + a + v] = Instr("reserve", "rsp", 32)
      /\ c[4 + a + v] = Instr("object", "rcx", 0)
  BY DEF Layout
<1>5. \A j \in 1..f :
        c[4 + a + v + j] = Instr("load", ArgumentRegisters[j + 1], Aside(j))
  BY DEF Layout
<1>6. /\ c[5 + a + v + f] = Instr("callback", "rax", 0)
      /\ c[6 + a + v + f] = Instr("call", "rax", 0)
      /\ c[7 + a + v + f] = Instr("restore", "rsp", 0)
      /\ c[8 + a + v + f] = Instr("pop", "rbp", 0)
      /\ c[9 + a + v + f] = Instr("ret", "rsp", 0)
  BY DEF Layout
<1> HIDE DEF a, v, f
<1>7. \/ i = 1 \/ i = 2 \/ i - 2 \in 1..a \/ i - (2 + a) \in 1..v
      \/ i = 3 + a + v \/ i = 4 + a + v \/ i - (4 + a + v) \in 1..f
      \/ i = 5 + a + v + f \/ i = 6 + a + v + f \/ i = 7 + a + v + f
      \/ i = 8 + a + v + f \/ i = 9 + a + v + f
  BY <1>0, <1>1
<1>11. ASSUME i = 1 PROVE G
  BY <1>1, <1>11 DEF Instr
<1>12. ASSUME i = 2 PROVE G
  BY <1>1, <1>12 DEF Instr
<1>13. ASSUME i - 2 \in 1..a PROVE G
  <2> DEFINE j == i - 2
  <2>1. i = 2 + j /\ j \in 1..a
    BY <1>0, <1>1, <1>13
  <2> HIDE DEF j
  <2>2. c[i] = Instr("store", ArgumentRegisters[j], Aside(j))
    BY <1>2, <2>1
  <2>3. c[i].op = "store" /\ c[i].reg = ArgumentRegisters[j] /\ c[i].disp = Aside(j)
    BY <2>2 DEF Instr
  <2> QED
    BY <2>1, <2>3
<1>14. ASSUME i - (2 + a) \in 1..v PROVE G
  <2> DEFINE j == i - (2 + a)
  <2>1. i = 2 + a + j /\ j \in 1..v
    BY <1>0, <1>1, <1>14
  <2> HIDE DEF j
  <2>2. c[i] = Instr("pushmem", "rbp", -32 - 8 * v + 8 * (j - 1))
    BY <1>3, <2>1
  <2>3. c[i].op = "pushmem" /\ c[i].disp = -32 - 8 * v + 8 * (j - 1)
    BY <2>2 DEF Instr
  <2> QED
    BY <2>1, <2>3
<1>15. ASSUME i = 3 + a + v PROVE G
  BY <1>4, <1>15 DEF Instr
<1>16. ASSUME i = 4 + a + v PROVE G
  BY <1>4, <1>16 DEF Instr
<1>17. ASSUME i - (4 + a + v) \in 1..f PROVE G
  <2> DEFINE j == i - (4 + a + v)
  <2>1. i = 4 + a + v + j /\ j \in 1..f
    BY <1>0, <1>1, <1>17
  <2> HIDE DEF j
  <2>2. c[i] = Instr("load", ArgumentRegisters[j + 1], Aside(j))
    BY <1>5, <2>1
  <2>3. c[i].op = "load" /\ c[i].reg = ArgumentRegisters[j + 1] /\ c[i].disp = Aside(j)
    BY <2>2 DEF Instr
  <2> QED
    BY <2>1, <2>3
<1>18. ASSUME i = 5 + a + v + f PROVE G
  BY <1>6, <1>18 DEF Instr
<1>19. ASSUME i = 6 + a + v + f PROVE G
  BY <1>6, <1>19 DEF Instr
<1>20. ASSUME i = 7 + a + v + f PROVE G
  BY <1>6, <1>20 DEF Instr
<1>21. ASSUME i = 8 + a + v + f PROVE G
  BY <1>6, <1>21 DEF Instr
<1>22. ASSUME i = 9 + a + v + f PROVE G
  BY <1>6, <1>22 DEF Instr
<1>23. G
  <2> HIDE DEF G
  <2> QED
    BY <1>7, <1>11, <1>12, <1>13, <1>14, <1>15, <1>16, <1>17, <1>18, <1>19, <1>20,
       <1>21, <1>22
<1> QED
  BY <1>23 DEF a, v, f

-----------------------------------------------------------------------------
(* The inductive invariant: where the stack pointer, the frame pointer and what the
   caller needs are before every instruction. *)

(* Where the stack pointer is before the i-th instruction. *)
Sp(n, i) ==
  IF i = 1 THEN 0
  ELSE IF i <= 2 + A(n) THEN -8
  ELSE IF i <= 3 + A(n) + V(n) THEN -8 - 8 * (i - 3 - A(n))
  ELSE IF i <= 7 + A(n) + V(n) + F(n) THEN -40 - 8 * V(n)
  ELSE IF i = 8 + A(n) + V(n) + F(n) THEN -8
  ELSE 0

Typed ==
  /\ regs \in [Registers -> Words]
  /\ mem \in [Stack -> Words]
  /\ result \in Words

(* What the caller needs is on the stack from the first instruction to the
   last, and what the callback returned is in rax from its return on. *)
Frame(n, i) ==
  /\ i \in 1..(9 + A(n) + V(n) + F(n))
  /\ regs["rsp"] = Address(Sp(n, i))
  /\ regs["rbp"] = IF i \in 3..(8 + A(n) + V(n) + F(n))
                   THEN Address(-8) ELSE CallerFrame
  /\ mem[0] = ReturnAddress
  /\ i >= 2 => mem[-8] = CallerFrame
  /\ i > 6 + A(n) + V(n) + F(n) => regs["rax"] = result /\ result \in ResultWords

ThunkInv ==
  /\ Typed
  /\ state \in {"none", "failed", "made", "running", "calling", "back"}
  /\ nargs \in ArgumentCounts \cup {0}
  /\ state \in {"none", "failed"} => code = <<>> /\ ip = 0
  /\ state \in {"made", "running", "calling", "back"} =>
       nargs \in ArgumentCounts /\ code = create_x64_thunk(nargs)
  /\ state = "made" => ip = 0
  /\ state \in {"running", "calling"} => Frame(nargs, ip)
  /\ state = "calling" => ip = 6 + A(nargs) + V(nargs) + F(nargs)
  /\ state = "back" =>
       /\ ip = 9 + A(nargs) + V(nargs) + F(nargs)
       /\ regs["rsp"] = Address(8) /\ regs["rbp"] = CallerFrame
       /\ regs["rax"] = result /\ result \in ResultWords

(* What CountsAssumption says of a number of arguments. *)
LEMMA CountsOf ==
  /\ ArgumentCounts \subseteq Counts
  /\ \A n \in ArgumentCounts : n \in Nat /\ n <= MostArguments
  /\ MostArguments \in Nat
BY CountsAssumption DEF Counts

(* The addresses the stack has. *)
LEMMA InStack ==
  ASSUME NEW k \in Int, -5 - MostArguments <= k, k <= MostArguments + 1
  PROVE  8 * k \in Stack
<1>1. k \in (-5 - MostArguments)..(MostArguments + 1)
  BY CountsOf
<1> QED
  BY <1>1 DEF Stack

(* What the words are made of is a word. *)
LEMMA WordsAre ==
  /\ \A x \in Int : /\ Address(x) \in Words
                    /\ Address(x).n = x /\ Address(x).is = "address"
  /\ \A x \in Int : ArgumentWord(x) \in Words
  /\ Object \in Words /\ Callback \in Words /\ ReturnAddress \in Words
  /\ CallerFrame \in Words /\ Garbage \in Words /\ ResultWords \subseteq Words
BY ResultsAssumption DEF Address, ArgumentWord, Object, Callback, ReturnAddress,
   CallerFrame, Garbage, ResultWords, Words, Word

(* The registers the thunk names. *)
LEMMA RegistersAre ==
  {"rax", "rcx", "rsp", "rbp"} \subseteq Registers
BY DEF Registers

(* Every address the thunk uses is on the stack. *)
LEMMA SpType ==
  ASSUME NEW n \in ArgumentCounts, NEW i \in 1..(9 + A(n) + V(n) + F(n))
  PROVE  /\ Sp(n, i) \in Stack /\ Sp(n, i) \in Int
         /\ 8 \in Stack /\ 0 \in Stack /\ -8 \in Stack
         /\ \A j \in 1..A(n) : -16 - 8 * j \in Stack
         /\ \A j \in 1..V(n) : -40 - 8 * V(n) + 8 * (j - 1) \in Stack
<1> DEFINE a == A(n)
           v == V(n)
           f == F(n)
           m == MostArguments
<1>1. /\ a \in 0..4 /\ v \in 0..252 /\ f \in 0..3 /\ n = f + v
      /\ (v > 0 => a = 4 /\ f = 3) /\ (a = 4 => v > 0) /\ a <= n
      /\ m \in Nat /\ n <= m /\ n \in Nat
  BY CountsOf, Sizes
<1>2. v <= m
  BY <1>1
<1> HIDE DEF a, v, f, m
<1>3. ASSUME NEW k \in Int, -5 - v <= k, k <= 1 PROVE 8 * k \in Stack
  <2>1. -5 - m <= k /\ k <= m + 1
    BY <1>1, <1>2, <1>3
  <2> QED
    BY <2>1, InStack DEF m
<1>4. 8 \in Stack /\ 0 \in Stack /\ -8 \in Stack
  <2>1. 8 * 1 \in Stack /\ 8 * 0 \in Stack /\ 8 * (-1) \in Stack
    BY <1>1, <1>3
  <2>2. 8 * 1 = 8 /\ 8 * 0 = 0 /\ 8 * (-1) = -8
    OBVIOUS
  <2> QED
    BY <2>1, <2>2
<1>5. ASSUME NEW j \in 1..a PROVE -16 - 8 * j \in Stack
  <2>1. -2 - j \in Int /\ -5 - v <= -2 - j /\ -2 - j <= 1
    BY <1>1
  <2>2. 8 * (-2 - j) \in Stack
    BY <1>3, <2>1
  <2>3. 8 * (-2 - j) = -16 - 8 * j
    BY <1>1
  <2> QED
    BY <2>2, <2>3
<1>6. ASSUME NEW j \in 1..v PROVE -40 - 8 * v + 8 * (j - 1) \in Stack
  <2>1. -5 - v + (j - 1) \in Int /\ -5 - v <= -5 - v + (j - 1) /\ -5 - v + (j - 1) <= 1
    BY <1>1
  <2>2. 8 * (-5 - v + (j - 1)) \in Stack
    BY <1>3, <2>1
  <2>3. 8 * (-5 - v + (j - 1)) = -40 - 8 * v + 8 * (j - 1)
    BY <1>1
  <2> QED
    BY <2>2, <2>3
<1>7. ASSUME i > 2 + a, i <= 3 + a + v PROVE -8 - 8 * (i - 3 - a) \in Stack
  <2> DEFINE k == -1 - (i - 3 - a)
  <2>1. k \in Int /\ -5 - v <= k /\ k <= 1 /\ 8 * k = -8 - 8 * (i - 3 - a)
    BY <1>1, <1>7 DEF a
  <2> HIDE DEF k
  <2> QED
    BY <1>3, <2>1
<1>8. -40 - 8 * v \in Stack
  <2>1. -5 - v \in Int /\ -5 - v <= 1 /\ 8 * (-5 - v) = -40 - 8 * v /\ -5 - v <= -5 - v
    BY <1>1
  <2> QED
    BY <1>3, <2>1
<1>9. Sp(n, i) \in Stack /\ Sp(n, i) \in Int
  <2>1. i \in Int /\ a \in Int /\ v \in Int
    BY <1>1 DEF a, v, f
  <2>2. Sp(n, i) = IF i = 1 THEN 0
                   ELSE IF i <= 2 + a THEN -8
                   ELSE IF i <= 3 + a + v THEN -8 - 8 * (i - 3 - a)
                   ELSE IF i <= 7 + a + v + f THEN -40 - 8 * v
                   ELSE IF i = 8 + a + v + f THEN -8 ELSE 0
    BY DEF Sp, a, v, f
  <2> QED
    BY <1>1, <1>4, <1>7, <1>8, <2>1, <2>2
<1> QED
  BY <1>4, <1>5, <1>6, <1>9 DEF a, v

(* Sp, place by place. *)
LEMMA SpAt ==
  ASSUME NEW n \in Counts
  PROVE  /\ Sp(n, 1) = 0
         /\ \A i \in 2..(3 + A(n)) : Sp(n, i) = -8
         /\ \A j \in 0..V(n) : Sp(n, 3 + A(n) + j) = -8 - 8 * j
         /\ \A i \in (4 + A(n) + V(n))..(7 + A(n) + V(n) + F(n)) :
              Sp(n, i) = -40 - 8 * V(n)
         /\ Sp(n, 8 + A(n) + V(n) + F(n)) = -8
         /\ Sp(n, 9 + A(n) + V(n) + F(n)) = 0
<1> DEFINE a == A(n)
           v == V(n)
           f == F(n)
           S(i) == IF i = 1 THEN 0
                   ELSE IF i <= 2 + a THEN -8
                   ELSE IF i <= 3 + a + v THEN -8 - 8 * (i - 3 - a)
                   ELSE IF i <= 7 + a + v + f THEN -40 - 8 * v
                   ELSE IF i = 8 + a + v + f THEN -8 ELSE 0
<1>1. a \in 0..4 /\ v \in 0..252 /\ f \in 0..3
  BY Sizes
<1>2. \A i : Sp(n, i) = S(i)
  BY DEF Sp
<1> HIDE DEF a, v, f
<1>3. S(1) = 0
  OBVIOUS
<1>4. \A i \in 2..(3 + a) : S(i) = -8
  BY <1>1
<1>5. \A j \in 0..v : S(3 + a + j) = -8 - 8 * j
  BY <1>1
<1>6. \A i \in (4 + a + v)..(7 + a + v + f) : S(i) = -40 - 8 * v
  BY <1>1
<1>7. S(8 + a + v + f) = -8 /\ S(9 + a + v + f) = 0
  BY <1>1
<1> HIDE DEF S
<1> QED
  BY <1>2, <1>3, <1>4, <1>5, <1>6, <1>7 DEF a, v, f

(* What the invariant says while the thunk or the callback runs. *)
LEMMA RunningIs ==
  ASSUME ThunkInv, state \in {"running", "calling"}
  PROVE  /\ nargs \in ArgumentCounts /\ nargs \in Counts
         /\ Layout(nargs, code) /\ Len(code) = 9 + A(nargs) + V(nargs) + F(nargs)
         /\ ip \in 1..Len(code) /\ Frame(nargs, ip)
         /\ rsp = Sp(nargs, ip) /\ rsp \in Stack /\ rsp \in Int
         /\ ip \in 3..(8 + A(nargs) + V(nargs) + F(nargs)) => rbp = -8
         /\ 0 \in Stack /\ -8 \in Stack /\ 8 \in Stack
         /\ regs \in [Registers -> Words] /\ mem \in [Stack -> Words]
<1>1. /\ nargs \in ArgumentCounts /\ code = create_x64_thunk(nargs)
      /\ Frame(nargs, ip) /\ Typed
  BY DEF ThunkInv
<1>2. nargs \in Counts
  BY <1>1, CountsOf
<1>3. Layout(nargs, code)
  BY <1>1, <1>2, LayoutOf
<1>4. Len(code) = 9 + A(nargs) + V(nargs) + F(nargs)
  BY <1>3 DEF Layout
<1>5. /\ ip \in 1..(9 + A(nargs) + V(nargs) + F(nargs))
      /\ regs["rsp"] = Address(Sp(nargs, ip))
      /\ ip \in 3..(8 + A(nargs) + V(nargs) + F(nargs)) => regs["rbp"] = Address(-8)
  BY <1>1 DEF Frame
<1>6. Sp(nargs, ip) \in Stack /\ Sp(nargs, ip) \in Int
      /\ 0 \in Stack /\ -8 \in Stack /\ 8 \in Stack
  BY <1>1, <1>5, SpType
<1>7. rsp = Sp(nargs, ip)
  BY <1>5, <1>6, WordsAre DEF rsp
<1>8. ip \in 3..(8 + A(nargs) + V(nargs) + F(nargs)) => rbp = -8
  BY <1>5, WordsAre DEF rbp
<1> QED
  BY <1>1, <1>2, <1>3, <1>4, <1>5, <1>6, <1>7, <1>8 DEF Typed

(* An instruction before the call keeps the invariant if it keeps the frame. *)
LEMMA ProceedStep ==
  ASSUME ThunkInv, state = "running", Proceed,
         regs' \in [Registers -> Words], mem' \in [Stack -> Words], Frame(nargs, ip)'
  PROVE  ThunkInv'
<1>1. UNCHANGED <<state, nargs, code, result>>
  BY DEF Proceed
<1>2. nargs \in ArgumentCounts /\ code = create_x64_thunk(nargs) /\ result \in Words
  BY DEF ThunkInv, Typed
<1> QED
  BY <1>1, <1>2 DEF ThunkInv, Typed

(* Where this invariant leaves the program after an instruction. *)
LEMMA FrameNext ==
  ASSUME ThunkInv, state = "running", Proceed,
         ip + 1 <= 6 + A(nargs) + V(nargs) + F(nargs),
         regs' \in [Registers -> Words], mem' \in [Stack -> Words],
         regs'["rsp"] = Address(Sp(nargs, ip + 1)),
         regs'["rbp"] = IF ip + 1 >= 3 THEN Address(-8) ELSE CallerFrame,
         mem'[0] = mem[0], mem'[-8] = CallerFrame
  PROVE  ThunkInv'
<1> DEFINE a == A(nargs)
           v == V(nargs)
           f == F(nargs)
<1>1. ip' = ip + 1 /\ UNCHANGED <<state, nargs, code, result>>
  BY DEF Proceed
<1>2. a \in 0..4 /\ v \in 0..252 /\ f \in 0..3
  BY RunningIs, Sizes
<1>3. ip \in 1..(9 + a + v + f)
  BY RunningIs
<1>4. mem[0] = ReturnAddress
  BY RunningIs DEF Frame
<1>5. ip + 1 <= 6 + a + v + f
  OBVIOUS
<1>6. /\ regs'["rsp"] = Address(Sp(nargs, ip'))
      /\ regs'["rbp"] = IF ip' >= 3 THEN Address(-8) ELSE CallerFrame
      /\ mem'[0] = ReturnAddress /\ mem'[-8] = CallerFrame
  BY <1>1, <1>4
<1>7. a = A(nargs) /\ v = V(nargs) /\ f = F(nargs)
  OBVIOUS
<1> HIDE DEF a, v, f
<1>8. /\ ip' \in 1..(9 + a + v + f) /\ ~(ip' > 6 + a + v + f)
      /\ ip' \in 3..(8 + a + v + f) <=> ip' >= 3
      /\ ip' \in Int
  BY <1>1, <1>2, <1>3, <1>5
<1>9. Frame(nargs, ip)'
  BY <1>1, <1>6, <1>7, <1>8 DEF Frame
<1> QED
  BY <1>9, ProceedStep

-----------------------------------------------------------------------------
(* Every instruction keeps it. *)

(* The instructions the program is at, by their kind. *)
LEMMA AtIs ==
  ASSUME ThunkInv, NEW op, Is(op)
  PROVE  /\ state = "running" /\ code[ip].op = op
         /\ nargs \in Counts /\ Layout(nargs, code) /\ ip \in 1..Len(code)
         /\ A(nargs) \in 0..4 /\ V(nargs) \in 0..252 /\ F(nargs) \in 0..3
<1>1. state = "running" /\ code[ip].op = op
  BY DEF Is
<1>2. nargs \in Counts /\ Layout(nargs, code) /\ ip \in 1..Len(code)
  BY <1>1, RunningIs
<1> QED
  BY <1>1, <1>2, Sizes

(* push rbp: the caller's frame is now on the stack. *)
LEMMA PushKeeps == ASSUME ThunkInv, Push PROVE ThunkInv'
<1>1. Is("push") /\ PushWord(regs[reg]) /\ Proceed
  BY DEF Push
<1>2. /\ state = "running" /\ code[ip].op = "push"
      /\ nargs \in Counts /\ Layout(nargs, code) /\ ip \in 1..Len(code)
  BY <1>1, AtIs
<1>0. A(nargs) \in 0..4 /\ V(nargs) \in 0..252 /\ F(nargs) \in 0..3
  BY <1>1, AtIs
<1>3. ip = 1 /\ reg = "rbp"
  BY <1>2, Where DEF reg
<1>4. Sp(nargs, 1) = 0 /\ Sp(nargs, 2) = -8
  <2>1. 2 \in 2..(3 + A(nargs))
    BY <1>0
  <2> QED
    BY <1>2, <2>1, SpAt
<1>5. /\ rsp = 0 /\ 0 \in Stack /\ -8 \in Stack /\ Frame(nargs, ip)
      /\ regs \in [Registers -> Words] /\ mem \in [Stack -> Words]
  BY <1>2, <1>3, <1>4, RunningIs
<1>6. regs["rbp"] = CallerFrame /\ mem[0] = ReturnAddress
  BY <1>3, <1>5 DEF Frame
<1>7. /\ mem' = [mem EXCEPT ![-8] = CallerFrame]
      /\ regs' = [regs EXCEPT !["rsp"] = Address(-8)]
  <2>1. rsp - 8 = -8
    BY <1>5
  <2> QED
    BY <1>1, <1>3, <1>6, <2>1 DEF PushWord, Set
<1>8. Address(-8) \in Words /\ CallerFrame \in Words
  BY WordsAre
<1>9. regs' \in [Registers -> Words] /\ mem' \in [Stack -> Words]
  BY <1>5, <1>7, <1>8
<1>10. /\ regs'["rsp"] = Address(-8) /\ regs'["rbp"] = CallerFrame
       /\ mem'[0] = mem[0] /\ mem'[-8] = CallerFrame
  BY <1>5, <1>6, <1>7, RegistersAre
<1>11. ip + 1 = 2 /\ ip + 1 <= 6 + A(nargs) + V(nargs) + F(nargs)
  BY <1>0, <1>3
<1>12. /\ regs'["rsp"] = Address(Sp(nargs, ip + 1))
       /\ regs'["rbp"] = IF ip + 1 >= 3 THEN Address(-8) ELSE CallerFrame
  BY <1>4, <1>10, <1>11
<1> QED
  BY <1>1, <1>2, <1>9, <1>10, <1>11, <1>12, FrameNext

(* mov rbp,rsp: the frame pointer is set. *)
LEMMA MoveFrameKeeps == ASSUME ThunkInv, MoveFrame PROVE ThunkInv'
<1>1. Is("mov") /\ regs' = [regs EXCEPT !["rbp"] = regs["rsp"]] /\ mem' = mem /\ Proceed
  BY DEF MoveFrame, Set
<1>2. /\ state = "running" /\ code[ip].op = "mov"
      /\ nargs \in Counts /\ Layout(nargs, code) /\ ip \in 1..Len(code)
  BY <1>1, AtIs
<1>0. A(nargs) \in 0..4 /\ V(nargs) \in 0..252 /\ F(nargs) \in 0..3
  BY <1>1, AtIs
<1>3. ip = 2
  BY <1>2, Where
<1>4. Sp(nargs, 2) = -8 /\ Sp(nargs, 3) = -8
  <2>1. 2 \in 2..(3 + A(nargs)) /\ 3 \in 2..(3 + A(nargs))
    BY <1>0
  <2> QED
    BY <1>2, <2>1, SpAt
<1>5. /\ Frame(nargs, ip)
      /\ regs \in [Registers -> Words] /\ mem \in [Stack -> Words]
  BY <1>2, RunningIs
<1>6. regs["rsp"] = Address(-8) /\ mem[-8] = CallerFrame
  BY <1>3, <1>4, <1>5 DEF Frame
<1>8. Address(-8) \in Words
  BY WordsAre
<1>9. regs' \in [Registers -> Words] /\ mem' \in [Stack -> Words]
  BY <1>1, <1>5, <1>6, <1>8
<1>10. /\ regs'["rsp"] = Address(-8) /\ regs'["rbp"] = Address(-8)
       /\ mem'[0] = mem[0] /\ mem'[-8] = CallerFrame
  BY <1>1, <1>5, <1>6, RegistersAre
<1>11. ip + 1 = 3 /\ ip + 1 <= 6 + A(nargs) + V(nargs) + F(nargs)
  BY <1>0, <1>3
<1>12. /\ regs'["rsp"] = Address(Sp(nargs, ip + 1))
       /\ regs'["rbp"] = IF ip + 1 >= 3 THEN Address(-8) ELSE CallerFrame
  BY <1>4, <1>10, <1>11
<1> QED
  BY <1>1, <1>2, <1>9, <1>10, <1>11, <1>12, FrameNext

(* An instruction of the body that neither moves the stack pointer nor writes
   what the caller needs. *)
LEMMA BodyKeeps ==
  ASSUME ThunkInv, state = "running", Proceed,
         ip \in 3..(5 + A(nargs) + V(nargs) + F(nargs)),
         regs' \in [Registers -> Words], mem' \in [Stack -> Words],
         regs'["rsp"] = Address(Sp(nargs, ip + 1)), regs'["rbp"] = regs["rbp"],
         mem'[0] = mem[0], mem'[-8] = mem[-8]
  PROVE  ThunkInv'
<1>1. /\ A(nargs) \in 0..4 /\ V(nargs) \in 0..252 /\ F(nargs) \in 0..3
  BY RunningIs, Sizes
<1>2. /\ ip + 1 <= 6 + A(nargs) + V(nargs) + F(nargs) /\ ip + 1 >= 3 /\ ip >= 2
      /\ ip \in 3..(8 + A(nargs) + V(nargs) + F(nargs))
  BY <1>1
<1>3. Frame(nargs, ip)
  BY RunningIs
<1>4. regs["rbp"] = Address(-8) /\ mem[-8] = CallerFrame
  BY <1>2, <1>3 DEF Frame
<1>5. regs'["rbp"] = IF ip + 1 >= 3 THEN Address(-8) ELSE CallerFrame
  BY <1>2, <1>4
<1> QED
  BY <1>2, <1>4, <1>5, FrameNext

(* mov [rbp-..],reg: what is written is below the caller's frame. *)
LEMMA PutAsideKeeps == ASSUME ThunkInv, PutAside PROVE ThunkInv'
<1>1. /\ Is("store") /\ mem' = [mem EXCEPT ![rbp + code[ip].disp] = regs[reg]]
      /\ regs' = regs /\ Proceed
  BY DEF PutAside
<1>2. /\ state = "running" /\ code[ip].op = "store"
      /\ nargs \in Counts /\ Layout(nargs, code) /\ ip \in 1..Len(code)
  BY <1>1, AtIs
<1>0. A(nargs) \in 0..4 /\ V(nargs) \in 0..252 /\ F(nargs) \in 0..3
  BY <1>1, AtIs
<1>3a. PICK j \in 1..A(nargs) : /\ ip = 2 + j /\ code[ip].reg = ArgumentRegisters[j]
                               /\ code[ip].disp = Aside(j)
  BY <1>2, Where
<1>3b. ip = 2 + j /\ j \in 1..A(nargs)
  BY <1>3a
<1>3. code[ip].reg = ArgumentRegisters[j] /\ code[ip].disp = Aside(j)
  BY <1>3a
<1>4. /\ ip \in 3..(5 + A(nargs) + V(nargs) + F(nargs))
      /\ ip \in 3..(8 + A(nargs) + V(nargs) + F(nargs))
      /\ ip \in 2..(3 + A(nargs)) /\ ip + 1 \in 2..(3 + A(nargs)) /\ j \in 1..4
      /\ ip \in 1..(9 + A(nargs) + V(nargs) + F(nargs))
  BY <1>0, <1>3b
<1>5. /\ Frame(nargs, ip) /\ nargs \in ArgumentCounts /\ rbp = -8
      /\ regs \in [Registers -> Words] /\ mem \in [Stack -> Words]
      /\ 0 \in Stack /\ -8 \in Stack
  BY <1>2, <1>4, RunningIs
<1>6. Sp(nargs, ip) = Sp(nargs, ip + 1)
  BY <1>2, <1>4, SpAt
<1>7. rbp + code[ip].disp = -16 - 8 * j
  BY <1>3, <1>5, <1>4 DEF Aside
<1>8. -16 - 8 * j \in Stack
  BY <1>3b, <1>4, <1>5, SpType
<1>9. regs[reg] \in Words
  BY <1>3, <1>4, <1>5, ArgumentRegistersType DEF reg
<1>10a. -16 - 8 * j # 0 /\ -16 - 8 * j # -8
  BY <1>4
<1>10. mem' = [mem EXCEPT ![-16 - 8 * j] = regs[reg]]
  BY <1>1, <1>7
<1>11. mem' \in [Stack -> Words] /\ mem'[0] = mem[0] /\ mem'[-8] = mem[-8]
  BY <1>5, <1>8, <1>9, <1>10, <1>10a
<1>12. regs'["rsp"] = Address(Sp(nargs, ip + 1))
  BY <1>1, <1>5, <1>6 DEF Frame
<1> QED
  BY <1>1, <1>2, <1>4, <1>5, <1>11, <1>12, BodyKeeps

(* push [rbp+argpos]: what is read is on the stack, what is written is below
   the caller's frame. *)
LEMMA PushMemoryKeeps == ASSUME ThunkInv, PushMemory PROVE ThunkInv'
<1>1. /\ Is("pushmem") /\ Proceed
      /\ mem' = [mem EXCEPT ![rsp - 8] = mem[rbp + code[ip].disp]]
      /\ regs' = [regs EXCEPT !["rsp"] = Address(rsp - 8)]
  BY DEF PushMemory, PushWord, Set
<1>2. /\ state = "running" /\ code[ip].op = "pushmem"
      /\ nargs \in Counts /\ Layout(nargs, code) /\ ip \in 1..Len(code)
  BY <1>1, AtIs
<1>0. A(nargs) \in 0..4 /\ V(nargs) \in 0..252 /\ F(nargs) \in 0..3
  BY <1>1, AtIs
<1>3a. PICK j \in 1..V(nargs) : /\ ip = 2 + A(nargs) + j
                                /\ code[ip].disp = -32 - 8 * V(nargs) + 8 * (j - 1)
  BY <1>2, Where
<1>3b. ip = 2 + A(nargs) + j /\ j \in 1..V(nargs)
  BY <1>3a
<1>4. /\ ip \in 3..(5 + A(nargs) + V(nargs) + F(nargs))
      /\ ip \in 3..(8 + A(nargs) + V(nargs) + F(nargs))
      /\ ip = 3 + A(nargs) + (j - 1) /\ ip + 1 = 3 + A(nargs) + j
      /\ j - 1 \in 0..V(nargs) /\ j \in 0..V(nargs) /\ j \in 1..252
      /\ ip \in 1..(9 + A(nargs) + V(nargs) + F(nargs))
      /\ ip + 1 \in 1..(9 + A(nargs) + V(nargs) + F(nargs))
  <2> DEFINE a == A(nargs)
             v == V(nargs)
             f == F(nargs)
  <2>1. a \in 0..4 /\ v \in 0..252 /\ f \in 0..3 /\ j \in 1..v
    BY <1>0, <1>3b
  <2>2. ip = 2 + a + j
    BY <1>3b
  <2> SUFFICES /\ ip \in 3..(5 + a + v + f)
               /\ ip \in 3..(8 + a + v + f)
               /\ ip = 3 + a + (j - 1) /\ ip + 1 = 3 + a + j
               /\ j - 1 \in 0..v /\ j \in 0..v /\ j \in 1..252
               /\ ip \in 1..(9 + a + v + f)
               /\ ip + 1 \in 1..(9 + a + v + f)
    OBVIOUS
  <2> HIDE DEF a, v, f
  <2>3. j \in 1..252 /\ j <= v
    BY <2>1
  <2> QED
    BY <2>1, <2>2, <2>3
<1>5. /\ Frame(nargs, ip) /\ nargs \in ArgumentCounts /\ rbp = -8 /\ rsp = Sp(nargs, ip)
      /\ regs \in [Registers -> Words] /\ mem \in [Stack -> Words]
      /\ 0 \in Stack /\ -8 \in Stack
  BY <1>2, <1>4, RunningIs
<1>6a. Sp(nargs, 3 + A(nargs) + (j - 1)) = -8 - 8 * (j - 1)
  BY <1>2, <1>4, SpAt
<1>6b. Sp(nargs, 3 + A(nargs) + j) = -8 - 8 * j
  BY <1>2, <1>4, SpAt
<1>6. rsp - 8 = -8 - 8 * j /\ Sp(nargs, ip + 1) = -8 - 8 * j
  <2>1. rsp = -8 - 8 * (j - 1)
    BY <1>4, <1>5, <1>6a
  <2>2. Sp(nargs, ip + 1) = -8 - 8 * j
    BY <1>4, <1>6b
  <2> QED
    BY <1>4, <2>1, <2>2
<1>7. rbp + code[ip].disp = -40 - 8 * V(nargs) + 8 * (j - 1)
  BY <1>3a, <1>5, <1>4, <1>0
<1>8. /\ -40 - 8 * V(nargs) + 8 * (j - 1) \in Stack
      /\ Sp(nargs, ip + 1) \in Stack /\ Sp(nargs, ip + 1) \in Int
  <2>1. /\ Sp(nargs, ip + 1) \in Stack /\ Sp(nargs, ip + 1) \in Int
    BY <1>4, <1>5, SpType
  <2>2. \A k \in 1..V(nargs) : -40 - 8 * V(nargs) + 8 * (k - 1) \in Stack
    BY <1>4, <1>5, SpType
  <2> QED
    BY <1>3b, <2>1, <2>2
<1>9. mem[rbp + code[ip].disp] \in Words
  BY <1>5, <1>7, <1>8
<1>10a. Sp(nargs, ip + 1) # 0 /\ Sp(nargs, ip + 1) # -8
  BY <1>4, <1>6
<1>10. /\ mem' = [mem EXCEPT ![Sp(nargs, ip + 1)] = mem[rbp + code[ip].disp]]
       /\ regs' = [regs EXCEPT !["rsp"] = Address(Sp(nargs, ip + 1))]
  BY <1>1, <1>6
<1>11. mem' \in [Stack -> Words] /\ mem'[0] = mem[0] /\ mem'[-8] = mem[-8]
  BY <1>5, <1>8, <1>9, <1>10, <1>10a
<1>12. /\ regs' \in [Registers -> Words]
       /\ regs'["rsp"] = Address(Sp(nargs, ip + 1)) /\ regs'["rbp"] = regs["rbp"]
  BY <1>5, <1>8, <1>10, RegistersAre, WordsAre
<1> QED
  BY <1>1, <1>2, <1>4, <1>11, <1>12, BodyKeeps

(* sub rsp,0x20: the stack pointer is where it is at the call. *)
LEMMA ReserveKeeps == ASSUME ThunkInv, Reserve PROVE ThunkInv'
<1>1. /\ Is("reserve") /\ Proceed /\ mem' = mem
      /\ regs' = [regs EXCEPT !["rsp"] = Address(rsp - code[ip].disp)]
  BY DEF Reserve, Set
<1>2. /\ state = "running" /\ code[ip].op = "reserve"
      /\ nargs \in Counts /\ Layout(nargs, code) /\ ip \in 1..Len(code)
  BY <1>1, AtIs
<1>0. A(nargs) \in 0..4 /\ V(nargs) \in 0..252 /\ F(nargs) \in 0..3
  BY <1>1, AtIs
<1>3. ip = 3 + A(nargs) + V(nargs) /\ code[ip].disp = 32
  BY <1>2, Where
<1>3b. ip = 3 + A(nargs) + V(nargs)
  BY <1>3
<1>4. /\ ip \in 3..(5 + A(nargs) + V(nargs) + F(nargs))
      /\ ip + 1 \in (4 + A(nargs) + V(nargs))..(7 + A(nargs) + V(nargs) + F(nargs))
      /\ ip + 1 \in 1..(9 + A(nargs) + V(nargs) + F(nargs))
      /\ V(nargs) \in 0..V(nargs)
  BY <1>0, <1>3b
<1>5. /\ Frame(nargs, ip) /\ nargs \in ArgumentCounts /\ rsp = Sp(nargs, ip)
      /\ regs \in [Registers -> Words] /\ mem \in [Stack -> Words]
  BY <1>2, RunningIs
<1>6a. Sp(nargs, 3 + A(nargs) + V(nargs)) = -8 - 8 * V(nargs)
  BY <1>2, <1>4, SpAt
<1>6b. Sp(nargs, ip + 1) = -40 - 8 * V(nargs)
  BY <1>2, <1>4, SpAt
<1>6. rsp - code[ip].disp = Sp(nargs, ip + 1)
  <2>1. rsp = -8 - 8 * V(nargs)
    BY <1>3, <1>5, <1>6a
  <2>2. code[ip].disp = 32
    BY <1>3
  <2> QED
    BY <1>0, <1>6b, <2>1, <2>2
<1>8. Sp(nargs, ip + 1) \in Int
  BY <1>4, <1>5, SpType
<1>10. regs' = [regs EXCEPT !["rsp"] = Address(Sp(nargs, ip + 1))]
  BY <1>1, <1>6
<1>12. /\ regs' \in [Registers -> Words]
       /\ regs'["rsp"] = Address(Sp(nargs, ip + 1)) /\ regs'["rbp"] = regs["rbp"]
  BY <1>5, <1>8, <1>10, RegistersAre, WordsAre
<1> QED
  BY <1>1, <1>2, <1>4, <1>5, <1>12, BodyKeeps

(* An instruction that loads a register the caller and the callback share. *)
LEMMA LoadKeeps ==
  ASSUME ThunkInv, state = "running", Proceed, NEW r \in Registers, NEW word \in Words,
         r \notin {"rsp", "rbp"}, regs' = [regs EXCEPT ![r] = word], mem' = mem,
         ip \in (4 + A(nargs) + V(nargs))..(5 + A(nargs) + V(nargs) + F(nargs))
  PROVE  ThunkInv'
<1>0. A(nargs) \in 0..4 /\ V(nargs) \in 0..252 /\ F(nargs) \in 0..3
  BY RunningIs, Sizes
<1>4. /\ ip \in 3..(5 + A(nargs) + V(nargs) + F(nargs))
      /\ ip \in (4 + A(nargs) + V(nargs))..(7 + A(nargs) + V(nargs) + F(nargs))
      /\ ip + 1 \in (4 + A(nargs) + V(nargs))..(7 + A(nargs) + V(nargs) + F(nargs))
  BY <1>0
<1>5. /\ Frame(nargs, ip) /\ nargs \in Counts
      /\ regs \in [Registers -> Words] /\ mem \in [Stack -> Words]
  BY RunningIs
<1>6. Sp(nargs, ip) = Sp(nargs, ip + 1)
  BY <1>4, <1>5, SpAt
<1>7. regs["rsp"] = Address(Sp(nargs, ip + 1))
  BY <1>5, <1>6 DEF Frame
<1>8. /\ regs' \in [Registers -> Words]
      /\ regs'["rsp"] = Address(Sp(nargs, ip + 1)) /\ regs'["rbp"] = regs["rbp"]
  BY <1>5, <1>7, RegistersAre
<1> QED
  BY <1>4, <1>5, <1>8, BodyKeeps

(* mov rcx,object and mov rax,callback. *)
LEMMA LoadConstantKeeps == ASSUME ThunkInv, LoadConstant PROVE ThunkInv'
<1>1. Proceed /\ mem' = mem
  BY DEF LoadConstant
<1>2. ASSUME Is("object"), regs' = [regs EXCEPT ![reg] = Object] PROVE ThunkInv'
  <2>1. /\ state = "running" /\ code[ip].op = "object"
        /\ nargs \in Counts /\ Layout(nargs, code) /\ ip \in 1..Len(code)
    BY <1>2, AtIs
  <2>2. A(nargs) \in 0..4 /\ V(nargs) \in 0..252 /\ F(nargs) \in 0..3
    BY <1>2, AtIs
  <2>3. ip = 4 + A(nargs) + V(nargs) /\ reg = "rcx"
    BY <2>1, Where DEF reg
  <2>4. ip \in (4 + A(nargs) + V(nargs))..(5 + A(nargs) + V(nargs) + F(nargs))
    BY <2>2, <2>3
  <2> QED
    BY <1>1, <1>2, <2>1, <2>3, <2>4, LoadKeeps, WordsAre, RegistersAre
<1>3. ASSUME Is("callback"), regs' = [regs EXCEPT ![reg] = Callback] PROVE ThunkInv'
  <2>1. /\ state = "running" /\ code[ip].op = "callback"
        /\ nargs \in Counts /\ Layout(nargs, code) /\ ip \in 1..Len(code)
    BY <1>3, AtIs
  <2>2. A(nargs) \in 0..4 /\ V(nargs) \in 0..252 /\ F(nargs) \in 0..3
    BY <1>3, AtIs
  <2>3. ip = 5 + A(nargs) + V(nargs) + F(nargs) /\ reg = "rax"
    BY <2>1, Where DEF reg
  <2>4. ip \in (4 + A(nargs) + V(nargs))..(5 + A(nargs) + V(nargs) + F(nargs))
    BY <2>2, <2>3
  <2> QED
    BY <1>1, <1>3, <2>1, <2>3, <2>4, LoadKeeps, WordsAre, RegistersAre
<1> QED
  BY <1>2, <1>3 DEF LoadConstant, Set

(* mov reg,[rbp-..]: what is read is on the stack. *)
LEMMA FetchKeeps == ASSUME ThunkInv, Fetch PROVE ThunkInv'
<1>1. /\ Is("load") /\ Proceed /\ mem' = mem
      /\ regs' = [regs EXCEPT ![reg] = mem[rbp + code[ip].disp]]
  BY DEF Fetch, Set
<1>2. /\ state = "running" /\ code[ip].op = "load"
      /\ nargs \in Counts /\ Layout(nargs, code) /\ ip \in 1..Len(code)
  BY <1>1, AtIs
<1>0. /\ A(nargs) \in 0..4 /\ V(nargs) \in 0..252 /\ F(nargs) \in 0..3
      /\ F(nargs) <= A(nargs)
  BY <1>1, AtIs, Sizes
<1>3. PICK j \in 1..F(nargs) : /\ ip = 4 + A(nargs) + V(nargs) + j
                               /\ code[ip].reg = ArgumentRegisters[j + 1]
                               /\ code[ip].disp = Aside(j)
  BY <1>2, Where
<1>3b. ip = 4 + A(nargs) + V(nargs) + j /\ j \in 1..F(nargs)
  BY <1>3
<1>4. /\ ip \in (4 + A(nargs) + V(nargs))..(5 + A(nargs) + V(nargs) + F(nargs))
      /\ ip \in 3..(8 + A(nargs) + V(nargs) + F(nargs))
      /\ j \in 1..A(nargs) /\ j + 1 \in 1..4
      /\ ip \in 1..(9 + A(nargs) + V(nargs) + F(nargs)) /\ j \in Int
  BY <1>0, <1>3b
<1>5. /\ nargs \in ArgumentCounts /\ rbp = -8 /\ mem \in [Stack -> Words]
  BY <1>2, <1>4, RunningIs
<1>6. rbp + code[ip].disp = -16 - 8 * j
  BY <1>3, <1>4, <1>5 DEF Aside
<1>7. -16 - 8 * j \in Stack
  BY <1>4, <1>5, SpType
<1>8. mem[rbp + code[ip].disp] \in Words
  BY <1>5, <1>6, <1>7
<1>9. reg \in Registers /\ reg \notin {"rsp", "rbp"}
  BY <1>3, <1>4, ArgumentRegistersType DEF reg
<1> QED
  BY <1>1, <1>2, <1>4, <1>8, <1>9, LoadKeeps

(* An instruction after the call. *)
LEMMA TailKeeps ==
  ASSUME ThunkInv, state \in {"running", "calling"}, state' = "running",
         nargs' = nargs, code' = code, ip' = ip + 1,
         ip + 1 \in (7 + A(nargs) + V(nargs) + F(nargs))
                    ..(9 + A(nargs) + V(nargs) + F(nargs)),
         regs' \in [Registers -> Words], mem' \in [Stack -> Words],
         result' \in ResultWords,
         regs'["rsp"] = Address(Sp(nargs, ip + 1)),
         regs'["rbp"] = IF ip + 1 <= 8 + A(nargs) + V(nargs) + F(nargs)
                        THEN Address(-8) ELSE CallerFrame,
         regs'["rax"] = result', mem'[0] = mem[0], mem'[-8] = mem[-8]
  PROVE  ThunkInv'
<1>0. A(nargs) \in 0..4 /\ V(nargs) \in 0..252 /\ F(nargs) \in 0..3
  BY RunningIs, Sizes
<1>1. ip >= 2
  <2>1. ip \in Int
    BY RunningIs
  <2> QED
    BY <1>0, <2>1
<1>2. mem[0] = ReturnAddress /\ mem[-8] = CallerFrame
  BY <1>1, RunningIs DEF Frame
<1>3. /\ ip' \in 1..(9 + A(nargs) + V(nargs) + F(nargs))
      /\ ip' \in 3..(8 + A(nargs) + V(nargs) + F(nargs))
           <=> ip' <= 8 + A(nargs) + V(nargs) + F(nargs)
  BY <1>0
<1>4. Frame(nargs, ip)'
  BY <1>2, <1>3 DEF Frame
<1>5. nargs \in ArgumentCounts /\ code = create_x64_thunk(nargs) /\ result' \in Words
  BY WordsAre DEF ThunkInv
<1> QED
  BY <1>4, <1>5 DEF ThunkInv, Typed

(* call rax. *)
LEMMA CallKeeps == ASSUME ThunkInv, Call PROVE ThunkInv'
<1>1. /\ Is("call") /\ state' = "calling"
      /\ UNCHANGED <<nargs, code, ip, regs, mem, result>>
  BY DEF Call
<1>2. /\ state = "running" /\ code[ip].op = "call"
      /\ nargs \in Counts /\ Layout(nargs, code) /\ ip \in 1..Len(code)
  BY <1>1, AtIs
<1>3. ip = 6 + A(nargs) + V(nargs) + F(nargs)
  BY <1>2, Where
<1>4. Frame(nargs, ip)
  BY <1>2, RunningIs
<1>5. Frame(nargs, ip)'
  BY <1>1, <1>4 DEF Frame
<1> QED
  BY <1>1, <1>2, <1>3, <1>5 DEF ThunkInv, Typed

(* What the callback may write does not reach what the caller needs. *)
LEMMA CallbackReturnsKeeps == ASSUME ThunkInv, CallbackReturns PROVE ThunkInv'
<1>1. /\ state = "calling" /\ state' = "running" /\ ip' = ip + 1
      /\ nargs' = nargs /\ code' = code
  BY DEF CallbackReturns
<1>2. PICK word \in ResultWords, written \in SUBSET CallbackSpace :
        /\ result' = word
        /\ regs' = [r \in Registers |->
                     CASE r = "rax" -> word
                       [] r \in {"rsp", "rbp"} -> regs[r]
                       [] OTHER -> Garbage]
        /\ mem' = [a \in Stack |->
                    IF a \in written \/ a < rsp THEN Garbage ELSE mem[a]]
  BY DEF CallbackReturns
<1>3. /\ nargs \in Counts /\ ip \in 1..Len(code) /\ Frame(nargs, ip)
      /\ rsp = Sp(nargs, ip) /\ 0 \in Stack /\ -8 \in Stack
      /\ regs \in [Registers -> Words] /\ mem \in [Stack -> Words]
  BY <1>1, RunningIs
<1>0. /\ A(nargs) \in 0..4 /\ V(nargs) \in 0..252 /\ F(nargs) \in 0..3
      /\ nargs = F(nargs) + V(nargs)
  BY <1>3, Sizes
<1>4. ip = 6 + A(nargs) + V(nargs) + F(nargs)
  BY <1>1 DEF ThunkInv
<1>5. /\ ip \in (4 + A(nargs) + V(nargs))..(7 + A(nargs) + V(nargs) + F(nargs))
      /\ ip + 1 \in (4 + A(nargs) + V(nargs))..(7 + A(nargs) + V(nargs) + F(nargs))
      /\ ip + 1 \in (7 + A(nargs) + V(nargs) + F(nargs))
                    ..(9 + A(nargs) + V(nargs) + F(nargs))
      /\ ip \in 3..(8 + A(nargs) + V(nargs) + F(nargs))
      /\ ip + 1 <= 8 + A(nargs) + V(nargs) + F(nargs)
  <2> DEFINE a == A(nargs)
             v == V(nargs)
             f == F(nargs)
  <2>1. a \in 0..4 /\ v \in 0..252 /\ f \in 0..3
    BY <1>0
  <2>2. ip = 6 + a + v + f
    BY <1>4
  <2> SUFFICES /\ ip \in (4 + a + v)..(7 + a + v + f)
               /\ ip + 1 \in (4 + a + v)..(7 + a + v + f)
               /\ ip + 1 \in (7 + a + v + f)..(9 + a + v + f)
               /\ ip \in 3..(8 + a + v + f)
               /\ ip + 1 <= 8 + a + v + f
    OBVIOUS
  <2> HIDE DEF a, v, f
  <2> QED
    BY <2>1, <2>2
<1>6. Sp(nargs, ip) = -40 - 8 * V(nargs) /\ Sp(nargs, ip + 1) = -40 - 8 * V(nargs)
  BY <1>3, <1>5, SpAt
<1>7. rsp = -40 - 8 * V(nargs)
  BY <1>3, <1>6
(* What the caller needs is above the space of the callback. *)
<1>8. 0 \notin CallbackSpace /\ -8 \notin CallbackSpace /\ ~(0 < rsp) /\ ~(-8 < rsp)
  <2>1. ~(0 < rsp) /\ ~(-8 < rsp) /\ ~(0 < rsp + 32) /\ ~(-8 < rsp + 32)
    BY <1>0, <1>7
  <2>2. ~(0 < rsp + 8 * (nargs + 1)) /\ ~(-8 < rsp + 8 * (nargs + 1))
    BY <1>0, <1>7
  <2> QED
    BY <2>1, <2>2 DEF CallbackSpace
<1>9. mem'[0] = mem[0] /\ mem'[-8] = mem[-8]
  BY <1>2, <1>3, <1>8
<1>10. mem' \in [Stack -> Words]
  BY <1>2, <1>3, WordsAre
<1>11. word \in Words
  BY WordsAre
<1>12. regs' \in [Registers -> Words]
  BY <1>2, <1>3, <1>11, WordsAre
<1>13. /\ regs'["rsp"] = regs["rsp"] /\ regs'["rbp"] = regs["rbp"]
       /\ regs'["rax"] = result' /\ result' \in ResultWords
  BY <1>2, RegistersAre
<1>14. /\ regs'["rsp"] = Address(Sp(nargs, ip + 1))
       /\ regs'["rbp"] = Address(-8)
  BY <1>3, <1>5, <1>6, <1>13 DEF Frame
<1> QED
  BY <1>1, <1>5, <1>9, <1>10, <1>12, <1>13, <1>14, TailKeeps

(* mov rsp,rbp: the stack pointer is at the caller's frame again. *)
LEMMA RestoreKeeps == ASSUME ThunkInv, Restore PROVE ThunkInv'
<1>1. /\ Is("restore") /\ mem' = mem /\ Proceed
      /\ regs' = [regs EXCEPT !["rsp"] = regs["rbp"]]
  BY DEF Restore, Set
<1>2. /\ state = "running" /\ code[ip].op = "restore"
      /\ nargs \in Counts /\ Layout(nargs, code) /\ ip \in 1..Len(code)
  BY <1>1, AtIs
<1>0. A(nargs) \in 0..4 /\ V(nargs) \in 0..252 /\ F(nargs) \in 0..3
  BY <1>1, AtIs
<1>3. ip = 7 + A(nargs) + V(nargs) + F(nargs)
  BY <1>2, Where
<1>4. /\ ip \in 3..(8 + A(nargs) + V(nargs) + F(nargs))
      /\ ip + 1 = 8 + A(nargs) + V(nargs) + F(nargs)
      /\ ip + 1 <= 8 + A(nargs) + V(nargs) + F(nargs)
      /\ ip + 1 \in (7 + A(nargs) + V(nargs) + F(nargs))
                    ..(9 + A(nargs) + V(nargs) + F(nargs))
      /\ ip > 6 + A(nargs) + V(nargs) + F(nargs)
  BY <1>0, <1>3
<1>5. /\ Frame(nargs, ip)
      /\ regs \in [Registers -> Words] /\ mem \in [Stack -> Words]
  BY <1>2, RunningIs
<1>6. regs["rbp"] = Address(-8) /\ regs["rax"] = result /\ result \in ResultWords
  BY <1>4, <1>5 DEF Frame
<1>7. Sp(nargs, ip + 1) = -8
  BY <1>2, <1>4, SpAt
<1>8. /\ regs' \in [Registers -> Words]
      /\ regs'["rsp"] = Address(Sp(nargs, ip + 1)) /\ regs'["rbp"] = Address(-8)
      /\ regs'["rax"] = result
  BY <1>1, <1>5, <1>6, <1>7, RegistersAre
<1>9. ip' = ip + 1 /\ UNCHANGED <<state, nargs, code, result>>
  BY <1>1 DEF Proceed
<1> QED
  BY <1>1, <1>2, <1>4, <1>5, <1>6, <1>8, <1>9, TailKeeps

(* pop rbp: the caller has its frame again. *)
LEMMA PopKeeps == ASSUME ThunkInv, Pop PROVE ThunkInv'
<1>1. /\ Is("pop") /\ mem' = mem /\ Proceed
      /\ regs' = [regs EXCEPT ![reg] = mem[rsp], !["rsp"] = Address(rsp + 8)]
  BY DEF Pop
<1>2. /\ state = "running" /\ code[ip].op = "pop"
      /\ nargs \in Counts /\ Layout(nargs, code) /\ ip \in 1..Len(code)
  BY <1>1, AtIs
<1>0. A(nargs) \in 0..4 /\ V(nargs) \in 0..252 /\ F(nargs) \in 0..3
  BY <1>1, AtIs
<1>3. ip = 8 + A(nargs) + V(nargs) + F(nargs)
  BY <1>2, Where
<1>3a. reg = "rbp"
  BY <1>2, Where DEF reg
<1>4. /\ ip + 1 = 9 + A(nargs) + V(nargs) + F(nargs)
      /\ ~(ip + 1 <= 8 + A(nargs) + V(nargs) + F(nargs))
      /\ ip + 1 \in (7 + A(nargs) + V(nargs) + F(nargs))
                    ..(9 + A(nargs) + V(nargs) + F(nargs))
      /\ ip > 6 + A(nargs) + V(nargs) + F(nargs) /\ ip >= 2
  BY <1>0, <1>3
<1>5. /\ Frame(nargs, ip) /\ rsp = Sp(nargs, ip) /\ -8 \in Stack
      /\ regs \in [Registers -> Words] /\ mem \in [Stack -> Words]
  BY <1>2, RunningIs
<1>6. mem[-8] = CallerFrame /\ regs["rax"] = result /\ result \in ResultWords
  BY <1>4, <1>5 DEF Frame
<1>7. Sp(nargs, ip) = -8 /\ Sp(nargs, ip + 1) = 0
  BY <1>2, <1>3, <1>4, SpAt
<1>8. regs' = [regs EXCEPT !["rbp"] = CallerFrame, !["rsp"] = Address(0)]
  <2>1. rsp = -8 /\ rsp + 8 = 0
    BY <1>5, <1>7
  <2> QED
    BY <1>1, <1>3a, <1>6, <2>1
<1>9. /\ regs' \in [Registers -> Words]
      /\ regs'["rsp"] = Address(Sp(nargs, ip + 1)) /\ regs'["rbp"] = CallerFrame
      /\ regs'["rax"] = result
  BY <1>5, <1>6, <1>7, <1>8, RegistersAre, WordsAre
<1>10. ip' = ip + 1 /\ UNCHANGED <<state, nargs, code, result>>
  BY <1>1 DEF Proceed
<1> QED
  BY <1>1, <1>2, <1>4, <1>5, <1>6, <1>9, <1>10, TailKeeps

(* ret: the caller has its stack pointer again. *)
LEMMA RetKeeps == ASSUME ThunkInv, Ret PROVE ThunkInv'
<1>1. /\ Is("ret") /\ state' = "back"
      /\ regs' = [regs EXCEPT !["rsp"] = Address(rsp + 8)]
      /\ UNCHANGED <<nargs, code, ip, mem, result>>
  BY DEF Ret, Set
<1>2. /\ state = "running" /\ code[ip].op = "ret"
      /\ nargs \in Counts /\ Layout(nargs, code) /\ ip \in 1..Len(code)
  BY <1>1, AtIs
<1>0. A(nargs) \in 0..4 /\ V(nargs) \in 0..252 /\ F(nargs) \in 0..3
  BY <1>1, AtIs
<1>3. ip = 9 + A(nargs) + V(nargs) + F(nargs)
  BY <1>2, Where
<1>4. /\ ~(ip \in 3..(8 + A(nargs) + V(nargs) + F(nargs)))
      /\ ip > 6 + A(nargs) + V(nargs) + F(nargs)
  BY <1>0, <1>3
<1>5. /\ Frame(nargs, ip) /\ rsp = Sp(nargs, ip)
      /\ regs \in [Registers -> Words] /\ mem \in [Stack -> Words]
  BY <1>2, RunningIs
<1>6. /\ regs["rbp"] = CallerFrame /\ regs["rax"] = result /\ result \in ResultWords
  BY <1>4, <1>5 DEF Frame
<1>7. rsp + 8 = 8
  BY <1>2, <1>3, <1>5, SpAt
<1>8. /\ regs' \in [Registers -> Words] /\ regs'["rsp"] = Address(8)
      /\ regs'["rbp"] = CallerFrame /\ regs'["rax"] = result
  BY <1>1, <1>5, <1>6, <1>7, RegistersAre, WordsAre
<1>9. /\ nargs \in ArgumentCounts /\ code = create_x64_thunk(nargs)
      /\ mem \in [Stack -> Words] /\ result \in Words
  BY <1>2 DEF ThunkInv, Typed
<1> QED
  BY <1>1, <1>3, <1>6, <1>8, <1>9 DEF ThunkInv, Typed

(* Addresses are integers. *)
LEMMA StackIsInt == Stack \subseteq Int
BY CountsOf DEF Stack

(* The call of a thunk that has been made, or has run before. *)
LEMMA EnterKeeps == ASSUME ThunkInv, Enter PROVE ThunkInv'
<1>1. /\ state \in {"made", "back"} /\ state' = "running" /\ ip' = 1
      /\ result' = Garbage /\ nargs' = nargs /\ code' = code
  BY DEF Enter
<1>2. /\ regs' = [r \in Registers |->
                   IF \E i \in 1..Least(nargs, 4) : ArgumentRegisters[i] = r
                   THEN ArgumentWord(CHOOSE i \in 1..4 : ArgumentRegisters[i] = r)
                   ELSE CASE r = "rsp" -> Address(0)
                          [] r = "rbp" -> CallerFrame
                          [] OTHER -> Garbage]
      /\ mem' = [a \in Stack |->
                  IF a = 0 THEN ReturnAddress
                  ELSE IF a >= 40 /\ a <= 8 * nargs
                       THEN ArgumentWord(a \div 8) ELSE Garbage]
  BY DEF Enter
<1>3. nargs \in ArgumentCounts /\ nargs \in Counts /\ code = create_x64_thunk(nargs)
  BY <1>1, CountsOf DEF ThunkInv
<1>0. A(nargs) \in 0..4 /\ V(nargs) \in 0..252 /\ F(nargs) \in 0..3
  BY <1>3, Sizes
<1>4. 1..Least(nargs, 4) \subseteq 1..4
  BY <1>0 DEF A
<1>5. 1 \in 1..(9 + A(nargs) + V(nargs) + F(nargs))
  BY <1>0
<1>6. 0 \in Stack
  BY <1>3, <1>5, SpType
<1>7. ASSUME NEW a \in Stack PROVE mem'[a] \in Words
  <2>1. a \in Int
    BY StackIsInt
  <2>2. a \div 8 \in Int
    BY <2>1
  <2> QED
    BY <1>2, <2>2, WordsAre
<1>8. mem' \in [Stack -> Words] /\ mem'[0] = ReturnAddress
  BY <1>2, <1>6, <1>7
<1>9. ASSUME NEW r \in Registers PROVE regs'[r] \in Words
  <2>1. CASE \E i \in 1..Least(nargs, 4) : ArgumentRegisters[i] = r
    <3>1. \E i \in 1..4 : ArgumentRegisters[i] = r
      BY <1>4, <2>1
    <3>2. (CHOOSE i \in 1..4 : ArgumentRegisters[i] = r) \in Int
      BY <3>1
    <3>3. regs'[r] = ArgumentWord(CHOOSE i \in 1..4 : ArgumentRegisters[i] = r)
      BY <1>2, <2>1
    <3> QED
      BY <3>2, <3>3, WordsAre
  <2>2. CASE ~(\E i \in 1..Least(nargs, 4) : ArgumentRegisters[i] = r)
    <3>1. regs'[r] = CASE r = "rsp" -> Address(0)
                       [] r = "rbp" -> CallerFrame
                       [] OTHER -> Garbage
      BY <1>2, <2>2
    <3> QED
      BY <3>1, WordsAre
  <2> QED
    BY <2>1, <2>2
<1>10. regs' \in [Registers -> Words]
  BY <1>2, <1>9
<1>11. ASSUME NEW r \in {"rsp", "rbp"}
       PROVE  ~(\E i \in 1..Least(nargs, 4) : ArgumentRegisters[i] = r)
  BY <1>4, ArgumentRegistersType
<1>12. regs'["rsp"] = Address(0) /\ regs'["rbp"] = CallerFrame
  BY <1>2, <1>11, RegistersAre
<1>13. Sp(nargs, 1) = 0
  BY <1>3, SpAt
<1>14. /\ ~(1 \in 3..(8 + A(nargs) + V(nargs) + F(nargs))) /\ ~(1 >= 2)
       /\ ~(1 > 6 + A(nargs) + V(nargs) + F(nargs))
  BY <1>0
<1>15. Frame(nargs, ip)'
  BY <1>1, <1>5, <1>8, <1>12, <1>13, <1>14 DEF Frame
<1> QED
  BY <1>1, <1>3, <1>8, <1>10, <1>15, WordsAre DEF ThunkInv, Typed

(* The invariant holds, for any number of arguments a byte can give. *)
THEOREM Invariant == Spec => []ThunkInv
<1>1. Init => ThunkInv
  BY WordsAre DEF Init, ThunkInv, Typed
<1>2. ThunkInv /\ [Next]_vars => ThunkInv'
  <2> SUFFICES ASSUME ThunkInv, [Next]_vars PROVE ThunkInv'
    OBVIOUS
  <2>1. ASSUME NEW n \in ArgumentCounts, Create(n) PROVE ThunkInv'
    BY <2>1 DEF ThunkInv, Typed, Create
  <2>2. ASSUME NEW n \in ArgumentCounts, CreationFails(n) PROVE ThunkInv'
    BY <2>2 DEF ThunkInv, Typed, CreationFails
  <2>3. CASE Enter
    BY <2>3, EnterKeeps
  <2>4. CASE Execute
    BY <2>4, PushKeeps, PushMemoryKeeps, MoveFrameKeeps, PutAsideKeeps, FetchKeeps,
       ReserveKeeps, LoadConstantKeeps, CallKeeps, RestoreKeeps, PopKeeps, RetKeeps
       DEF Execute
  <2>5. CASE CallbackReturns
    BY <2>5, CallbackReturnsKeeps
  <2>6. CASE UNCHANGED vars
    BY <2>6 DEF vars, ThunkInv, Typed, Frame
  <2> QED
    BY <2>1, <2>2, <2>3, <2>4, <2>5, <2>6 DEF Next
<1> QED
  BY <1>1, <1>2, PTL DEF Spec

(* Every variable has its type, and the stack pointer is on the stack the
   thunks may use, by construction of the code for any count. *)
THEOREM TypeCorrect == Spec => []TypeOK
<1>1. ThunkInv => TypeOK
  <2> SUFFICES ASSUME ThunkInv PROVE TypeOK
    OBVIOUS
  <2>1. /\ state \in {"none", "failed", "made", "running", "calling", "back"}
        /\ nargs \in ArgumentCounts \cup {0}
        /\ regs \in [Registers -> Words] /\ mem \in [Stack -> Words] /\ result \in Words
    BY DEF ThunkInv, Typed
  <2>2. CASE state \in {"none", "failed"}
    <3>1. code = <<>> /\ ip = 0
      BY <2>2 DEF ThunkInv
    <3>2. ip \in 0..Len(code)
      BY <3>1
    <3> QED
      BY <2>1, <2>2, <3>2 DEF TypeOK
  <2>3. ASSUME state \in {"made", "back"}
        PROVE  /\ nargs \in ArgumentCounts
               /\ Len(code) = 9 + A(nargs) + V(nargs) + F(nargs)
               /\ A(nargs) \in 0..4 /\ V(nargs) \in 0..252 /\ F(nargs) \in 0..3
    <3>1. nargs \in ArgumentCounts /\ nargs \in Counts /\ code = create_x64_thunk(nargs)
      BY <2>3, CountsOf DEF ThunkInv
    <3> QED
      BY <3>1, LayoutOf, Sizes DEF Layout
  <2>4. CASE state = "made"
    <3>1. ip = 0
      BY <2>4 DEF ThunkInv
    <3>2. Len(code) \in Nat
      BY <2>3, <2>4
    <3>3. ip \in 0..Len(code)
      BY <3>1, <3>2
    <3> QED
      BY <2>1, <2>4, <3>3 DEF TypeOK
  <2>5. CASE state = "back"
    <3>1. ip = 9 + A(nargs) + V(nargs) + F(nargs) /\ regs["rsp"] = Address(8)
      BY <2>5 DEF ThunkInv
    <3>5. A(nargs) \in 0..4 /\ V(nargs) \in 0..252 /\ F(nargs) \in 0..3
      BY <2>3, <2>5
    <3>6. /\ 9 + A(nargs) + V(nargs) + F(nargs)
               \in 0..(9 + A(nargs) + V(nargs) + F(nargs))
          /\ 1 \in 1..(9 + A(nargs) + V(nargs) + F(nargs))
      BY <3>5
    <3>2. ip \in 0..Len(code) /\ 1 \in 1..(9 + A(nargs) + V(nargs) + F(nargs))
      BY <2>3, <2>5, <3>1, <3>6
    <3>3. 8 \in Stack
      BY <2>3, <2>5, <3>2, SpType
    <3>4. regs["rsp"].is = "address" /\ rsp \in Stack
      BY <3>1, <3>3, WordsAre DEF rsp
    <3> QED
      BY <2>1, <3>2, <3>4 DEF TypeOK
  <2>6. CASE state \in {"running", "calling"}
    <3>1. /\ ip \in 1..Len(code) /\ Frame(nargs, ip) /\ rsp \in Stack
          /\ rsp = Sp(nargs, ip) /\ rsp \in Int
      BY <2>6, RunningIs
    <3>2. regs["rsp"].is = "address"
      BY <3>1, WordsAre DEF Frame
    <3>3. ip \in 0..Len(code)
      BY <3>1
    <3> QED
      BY <2>1, <3>1, <3>2, <3>3 DEF TypeOK
  <2> QED
    BY <2>1, <2>2, <2>4, <2>5, <2>6
<1> QED
  BY <1>1, Invariant, PTL

(* Where the callback is called the stack pointer is a multiple of 16, for any
   number of arguments of which an even number is pushed. *)
THEOREM StackIsAligned == Spec => []CallAligned
<1>1. ThunkInv => CallAligned
  <2> SUFFICES ASSUME ThunkInv, state = "calling", viastack(nargs) % 2 = 0
               PROVE  (rsp + 8) % 16 = 0
    BY DEF CallAligned
  <2>1. nargs \in Counts /\ rsp = Sp(nargs, ip)
    BY RunningIs
  <2>2. A(nargs) \in 0..4 /\ V(nargs) \in 0..252 /\ F(nargs) \in 0..3
    BY <2>1, Sizes
  <2>3. ip = 6 + A(nargs) + V(nargs) + F(nargs)
    BY DEF ThunkInv
  <2>4. ip \in (4 + A(nargs) + V(nargs))..(7 + A(nargs) + V(nargs) + F(nargs))
    BY <2>2, <2>3
  <2>5. rsp = -40 - 8 * V(nargs)
    BY <2>1, <2>4, SpAt
  <2>6. V(nargs) \in Int /\ V(nargs) % 2 = 0
    BY <2>2 DEF V
  <2>7. rsp + 8 = -32 - 8 * V(nargs)
    BY <2>5, <2>6
  <2>8. PICK k \in Int : V(nargs) = 2 * k
    BY <2>6
  <2>9. rsp + 8 = 16 * (-2 - k)
    BY <2>7, <2>8
  <2> QED
    BY <2>9
<1> QED
  BY <1>1, Invariant, PTL

(* The thunk returns to its caller, with the caller's stack pointer and frame and
   the callback's result, whatever the callback did to its own space: for any
   number of arguments. *)
THEOREM CallerIsRestored == Spec => []CallerRestored
<1>1. ThunkInv => CallerRestored
  <2> SUFFICES ASSUME ThunkInv PROVE CallerRestored
    OBVIOUS
  <2>1. ASSUME state = "running", code[ip].op = "ret" PROVE mem[rsp] = ReturnAddress
    <3>1. /\ nargs \in Counts /\ Layout(nargs, code) /\ ip \in 1..Len(code)
          /\ rsp = Sp(nargs, ip) /\ Frame(nargs, ip)
      BY <2>1, RunningIs
    <3>2. ip = 9 + A(nargs) + V(nargs) + F(nargs)
      BY <2>1, <3>1, Where
    <3>3. rsp = 0
      BY <3>1, <3>2, SpAt
    <3> QED
      BY <3>1, <3>3 DEF Frame
  <2>2. state = "back" => /\ regs["rsp"] = Address(8) /\ regs["rbp"] = CallerFrame
                          /\ regs["rax"] = result /\ result \in ResultWords
    BY DEF ThunkInv
  <2> QED
    BY <2>1, <2>2 DEF CallerRestored
<1> QED
  BY <1>1, Invariant, PTL

-----------------------------------------------------------------------------
(* The arguments. *)

(* Where the arguments are before the i-th instruction of a thunk for no more
   than four of them: in the registers they came in, then also put aside, the
   fourth then on the stack, and in the end each one place further. *)
Carried(n, i, r, m) ==
  /\ i <= 4 + A(n) + V(n) =>
       \A j \in 1..A(n) : r[ArgumentRegisters[j]] = ArgumentWord(j)
  /\ i <= 6 + A(n) + V(n) + F(n) =>
       /\ \A j \in 1..A(n) : i >= 3 + j => m[-16 - 8 * j] = ArgumentWord(j)
       /\ V(n) = 1 /\ i >= 4 + A(n) => m[-16] = ArgumentWord(4)
       /\ i >= 5 + A(n) + V(n) => r["rcx"] = Object
       /\ \A j \in 1..F(n) :
            i >= 5 + A(n) + V(n) + j => r[ArgumentRegisters[j + 1]] = ArgumentWord(j)
  /\ i = 6 + A(n) + V(n) + F(n) => r["rax"] = Callback

(* The argument registers are different registers. *)
LEMMA RegistersDiffer ==
  /\ ArgumentRegisters[1] = "rcx"
  /\ \A j \in 1..4 : /\ ArgumentRegisters[j] \in Registers
                     /\ ArgumentRegisters[j] \notin {"rsp", "rbp", "rax"}
                     /\ j # 1 => ArgumentRegisters[j] # "rcx"
  /\ \A j, k \in 1..4 : ArgumentRegisters[j] = ArgumentRegisters[k] => j = k
<1>1. /\ ArgumentRegisters[1] = "rcx" /\ ArgumentRegisters[2] = "rdx"
      /\ ArgumentRegisters[3] = "r8" /\ ArgumentRegisters[4] = "r9"
  BY DEF ArgumentRegisters
<1>2. \A j \in 1..4 : j = 1 \/ j = 2 \/ j = 3 \/ j = 4
  OBVIOUS
<1>3. \A j \in 1..4 : j # 1 => ArgumentRegisters[j] # "rcx"
  BY <1>1, <1>2
<1>4. ASSUME NEW j \in 1..4, NEW k \in 1..4, ArgumentRegisters[j] = ArgumentRegisters[k]
      PROVE  j = k
  BY <1>1, <1>2, <1>4
<1> QED
  BY <1>1, <1>3, <1>4, ArgumentRegistersType

(* The places the arguments are put aside in are on the stack. *)
LEMMA SlotsInStack ==
  ASSUME NEW n \in ArgumentCounts
  PROVE  /\ -8 \in Stack /\ -16 \in Stack
         /\ \A j \in 1..A(n) : -16 - 8 * j \in Stack
<1>1. A(n) \in 0..4 /\ V(n) \in 0..252 /\ F(n) \in 0..3
  BY CountsOf, Sizes
<1>2. 1 \in 1..(9 + A(n) + V(n) + F(n))
  BY <1>1
<1>3. -2 \in Int /\ -5 - MostArguments <= -2 /\ -2 <= MostArguments + 1
  BY CountsOf
<1>4. 8 * (-2) \in Stack
  BY <1>3, InStack
<1>5. 8 * (-2) = -16
  OBVIOUS
<1> QED
  BY <1>2, <1>4, <1>5, SpType

(* The instructions that move no argument. *)
LEMMA CarriedBy ==
  ASSUME NEW n \in ArgumentCounts, n <= 4, NEW i \in {1, 2, 3 + A(n) + V(n)},
         NEW r, NEW m, NEW r2, NEW m2, Carried(n, i, r, m),
         \A x \in Registers : x \notin {"rsp", "rbp"} => r2[x] = r[x],
         \A x \in Stack : x <= -16 => m2[x] = m[x]
  PROVE  Carried(n, i + 1, r2, m2)
<1> DEFINE a == A(n)
           v == V(n)
           f == F(n)
<1>0. a \in 0..4 /\ v \in 0..252 /\ f \in 0..3 /\ f <= a
  BY CountsOf, Sizes
<1>1. -16 \in Stack /\ \A j \in 1..a : -16 - 8 * j \in Stack
  BY SlotsInStack
<1>2. \A j \in 1..a : m2[-16 - 8 * j] = m[-16 - 8 * j]
  <2> TAKE j \in 1..a
  <2>1. -16 - 8 * j <= -16
    BY <1>0
  <2> QED
    BY <1>1, <2>1
<1>3. m2[-16] = m[-16]
  BY <1>1
<1>4. \A j \in 1..a : r2[ArgumentRegisters[j]] = r[ArgumentRegisters[j]]
  BY <1>0, RegistersDiffer
<1>5. i \in {1, 2, 3 + a + v}
  OBVIOUS
<1>6. i <= 4 + a + v => \A j \in 1..a : r[ArgumentRegisters[j]] = ArgumentWord(j)
  BY DEF Carried
<1>7. i <= 6 + a + v + f =>
       /\ \A j \in 1..a : i >= 3 + j => m[-16 - 8 * j] = ArgumentWord(j)
       /\ v = 1 /\ i >= 4 + a => m[-16] = ArgumentWord(4)
  BY DEF Carried
<1> HIDE DEF a, v, f
<1>8. /\ i \in Int /\ i <= 4 + a + v /\ i <= 6 + a + v + f /\ ~(i + 1 >= 5 + a + v)
      /\ i + 1 # 6 + a + v + f
      /\ v = 1 /\ i + 1 >= 4 + a => i >= 4 + a
      /\ \A j \in 1..f : ~(i + 1 >= 5 + a + v + j)
      /\ \A j \in 1..a : i + 1 >= 3 + j => i >= 3 + j
  BY <1>0, <1>5
<1>9. \A j \in 1..a : r2[ArgumentRegisters[j]] = ArgumentWord(j)
  BY <1>4, <1>6, <1>8
<1>10. \A j \in 1..a : i + 1 >= 3 + j => m2[-16 - 8 * j] = ArgumentWord(j)
  BY <1>2, <1>7, <1>8
<1>11. v = 1 /\ i + 1 >= 4 + a => m2[-16] = ArgumentWord(4)
  BY <1>3, <1>7, <1>8
<1> QED
  BY <1>8, <1>9, <1>10, <1>11 DEF Carried, a, v, f

(* The argument that is put aside. *)
LEMMA CarriedByStore ==
  ASSUME NEW n \in ArgumentCounts, n <= 4, NEW k \in 1..A(n),
         NEW r, NEW m, DOMAIN m = Stack, Carried(n, 2 + k, r, m)
  PROVE  Carried(n, 2 + k + 1, r, [m EXCEPT ![-16 - 8 * k] = r[ArgumentRegisters[k]]])
<1> DEFINE a == A(n)
           v == V(n)
           f == F(n)
           m2 == [m EXCEPT ![-16 - 8 * k] = r[ArgumentRegisters[k]]]
<1>0. a \in 0..4 /\ v \in 0..252 /\ f \in 0..3 /\ f <= a /\ k \in 1..a
  BY CountsOf, Sizes
<1>1. \A j \in 1..a : -16 - 8 * j \in Stack
  BY SlotsInStack
<1>2. 2 + k <= 4 + a + v => \A j \in 1..a : r[ArgumentRegisters[j]] = ArgumentWord(j)
  BY DEF Carried
<1>3. 2 + k <= 6 + a + v + f =>
       \A j \in 1..a : 2 + k >= 3 + j => m[-16 - 8 * j] = ArgumentWord(j)
  BY DEF Carried
<1> HIDE DEF a, v, f
<1>4. /\ 2 + k <= 4 + a + v /\ 2 + k <= 6 + a + v + f /\ ~(2 + k + 1 >= 5 + a + v)
      /\ 2 + k + 1 # 6 + a + v + f /\ ~(2 + k + 1 >= 4 + a)
      /\ \A j \in 1..f : ~(2 + k + 1 >= 5 + a + v + j)
  BY <1>0
<1>5. ASSUME NEW j \in 1..a, 2 + k + 1 >= 3 + j PROVE m2[-16 - 8 * j] = ArgumentWord(j)
  <2>1. CASE j = k
    BY <1>0, <1>1, <1>2, <1>4, <2>1
  <2>2. CASE j # k
    <3>1. 2 + k >= 3 + j
      BY <1>0, <1>5, <2>2
    <3>2. -16 - 8 * j # -16 - 8 * k
      BY <1>0, <2>2
    <3>3. -16 - 8 * j \in Stack
      BY <1>1
    <3>4. m2[-16 - 8 * j] = m[-16 - 8 * j]
      BY <3>2, <3>3
    <3> QED
      BY <1>3, <1>4, <3>1, <3>4
  <2> QED
    BY <2>1, <2>2
<1> HIDE DEF m2
<1>6. Carried(n, 2 + k + 1, r, m2)
  BY <1>2, <1>4, <1>5 DEF Carried, a, v, f
<1> QED
  BY <1>6 DEF m2

(* The fourth argument is pushed, from where it has been put aside. *)
LEMMA CarriedByPush ==
  ASSUME NEW n \in ArgumentCounts, n <= 4, V(n) = 1,
         NEW r, NEW m, DOMAIN m = Stack, Carried(n, 3 + A(n), r, m), NEW r2,
         \A x \in Registers : x \notin {"rsp", "rbp"} => r2[x] = r[x]
  PROVE  Carried(n, 4 + A(n), r2, [m EXCEPT ![-16] = m[-48]])
<1> DEFINE a == A(n)
           f == F(n)
           m2 == [m EXCEPT ![-16] = m[-48]]
<1>0. a = 4 /\ f = 3
  BY CountsOf, Sizes
<1>1. -16 \in Stack /\ \A j \in 1..a : -16 - 8 * j \in Stack
  BY SlotsInStack
<1>2. \A j \in 1..a : r[ArgumentRegisters[j]] = ArgumentWord(j)
  BY <1>0 DEF Carried
<1>3. \A j \in 1..a : m[-16 - 8 * j] = ArgumentWord(j)
  <2> TAKE j \in 1..a
  <2>1. 3 + a >= 3 + j /\ 3 + a <= 6 + a + V(n) + f
    BY <1>0
  <2> QED
    BY <2>1 DEF Carried
<1>4. V(n) = 1
  OBVIOUS
<1> HIDE DEF a, f
<1>5. \A j \in 1..a : r2[ArgumentRegisters[j]] = ArgumentWord(j)
  BY <1>0, <1>2, RegistersDiffer
<1>6. \A j \in 1..a : m2[-16 - 8 * j] = ArgumentWord(j)
  BY <1>0, <1>1, <1>3
<1>7. m2[-16] = ArgumentWord(4)
  <2>1. m[-16 - 8 * 4] = ArgumentWord(4) /\ -16 - 8 * 4 = -48
    BY <1>0, <1>3
  <2> QED
    BY <1>1, <2>1
<1>8. /\ ~(4 + a >= 5 + a + 1) /\ 4 + a # 6 + a + 1 + f
      /\ \A j \in 1..f : ~(4 + a >= 5 + a + 1 + j)
  BY <1>0
<1> HIDE DEF m2
<1>9. Carried(n, 4 + a, r2, m2)
  BY <1>4, <1>5, <1>6, <1>7, <1>8 DEF Carried, a, f
<1> QED
  BY <1>9 DEF m2, a

(* The object comes to rcx, where the first argument was. *)
LEMMA CarriedByObject ==
  ASSUME NEW n \in Counts, n <= 4, NEW r, NEW m, DOMAIN r = Registers,
         Carried(n, 4 + A(n) + V(n), r, m)
  PROVE  Carried(n, 5 + A(n) + V(n), [r EXCEPT !["rcx"] = Object], m)
<1> DEFINE a == A(n)
           v == V(n)
           f == F(n)
           i == 4 + a + v
           r2 == [r EXCEPT !["rcx"] = Object]
<1>0. a \in 0..4 /\ v \in 0..252 /\ f \in 0..3 /\ f <= a
  BY Sizes
<1>1. i <= 6 + a + v + f =>
       /\ \A j \in 1..a : i >= 3 + j => m[-16 - 8 * j] = ArgumentWord(j)
       /\ v = 1 /\ i >= 4 + a => m[-16] = ArgumentWord(4)
  BY DEF Carried
<1>2. r2["rcx"] = Object
  BY RegistersAre
<1> HIDE DEF a, v, f, r2
<1>3. /\ i <= 6 + a + v + f /\ ~(5 + a + v <= 4 + a + v) /\ 5 + a + v # 6 + a + v + f
      /\ \A j \in 1..a : i >= 3 + j
      /\ i >= 4 + a
      /\ \A j \in 1..f : ~(5 + a + v >= 5 + a + v + j)
  BY <1>0
<1> HIDE DEF i
<1>4. Carried(n, 5 + a + v, r2, m)
  BY <1>1, <1>2, <1>3 DEF Carried, a, v, f
<1> QED
  BY <1>4 DEF r2, a, v

(* The k-th argument comes to the register of the next, whose own argument has
   been put aside. *)
LEMMA CarriedByLoad ==
  ASSUME NEW n \in Counts, n <= 4, NEW k \in 1..F(n),
         NEW r, NEW m, DOMAIN r = Registers,
         Carried(n, 4 + A(n) + V(n) + k, r, m)
  PROVE  Carried(n, 5 + A(n) + V(n) + k,
                 [r EXCEPT ![ArgumentRegisters[k + 1]] = m[-16 - 8 * k]], m)
<1> DEFINE a == A(n)
           v == V(n)
           f == F(n)
           i == 4 + a + v + k
           r2 == [r EXCEPT ![ArgumentRegisters[k + 1]] = m[-16 - 8 * k]]
<1>0. a \in 0..4 /\ v \in 0..252 /\ f \in 0..3 /\ f <= a /\ k \in 1..f
  BY Sizes
<1>1. i <= 6 + a + v + f =>
       /\ \A j \in 1..a : i >= 3 + j => m[-16 - 8 * j] = ArgumentWord(j)
       /\ v = 1 /\ i >= 4 + a => m[-16] = ArgumentWord(4)
       /\ i >= 5 + a + v => r["rcx"] = Object
       /\ \A j \in 1..f :
            i >= 5 + a + v + j => r[ArgumentRegisters[j + 1]] = ArgumentWord(j)
  BY DEF Carried
<1> HIDE DEF a, v, f
<1>3. /\ i <= 6 + a + v + f /\ ~(5 + a + v + k <= 4 + a + v)
      /\ 5 + a + v + k # 6 + a + v + f
      /\ \A j \in 1..a : i >= 3 + j
      /\ i >= 4 + a /\ i >= 5 + a + v /\ k \in 1..a /\ k \in 1..3
      /\ \A j \in 1..f : 5 + a + v + k >= 5 + a + v + j => j <= k
      /\ \A j \in 1..f : j <= k /\ j # k => i >= 5 + a + v + j
      /\ \A j \in 1..f : j \in 1..3
  BY <1>0
<1> HIDE DEF i
<1>4. r2["rcx"] = Object
  <2>1. ArgumentRegisters[k + 1] # "rcx"
    <3>1. k + 1 \in 1..4 /\ k + 1 # 1
      BY <1>3
    <3> QED
      BY <3>1, RegistersDiffer
  <2> QED
    BY <1>1, <1>3, <2>1, RegistersAre
<1>5. ASSUME NEW j \in 1..f, 5 + a + v + k >= 5 + a + v + j
      PROVE  r2[ArgumentRegisters[j + 1]] = ArgumentWord(j)
  <2>1. j + 1 \in 1..4 /\ k + 1 \in 1..4 /\ j <= k
    BY <1>3, <1>5
  <2>2. ArgumentRegisters[j + 1] \in Registers /\ ArgumentRegisters[k + 1] \in Registers
    BY <2>1, RegistersDiffer
  <2>3. CASE j = k
    BY <1>1, <1>3, <2>2, <2>3
  <2>4. CASE j # k
    <3>1. j + 1 # k + 1
      BY <1>0, <2>4
    <3>2. ArgumentRegisters[j + 1] # ArgumentRegisters[k + 1]
      BY <2>1, <3>1, RegistersDiffer
    <3>3. r2[ArgumentRegisters[j + 1]] = r[ArgumentRegisters[j + 1]]
      BY <2>2, <3>2
    <3> QED
      BY <1>1, <1>3, <2>1, <2>4, <3>3
  <2> QED
    BY <2>3, <2>4
<1> HIDE DEF r2
<1>6. Carried(n, 5 + a + v + k, r2, m)
  BY <1>1, <1>3, <1>4, <1>5 DEF Carried, a, v, f
<1> QED
  BY <1>6 DEF r2, a, v

(* The callback comes to rax. *)
LEMMA CarriedByCallback ==
  ASSUME NEW n \in Counts, n <= 4, NEW r, NEW m, DOMAIN r = Registers,
         Carried(n, 5 + A(n) + V(n) + F(n), r, m)
  PROVE  Carried(n, 6 + A(n) + V(n) + F(n), [r EXCEPT !["rax"] = Callback], m)
<1> DEFINE a == A(n)
           v == V(n)
           f == F(n)
           i == 5 + a + v + f
           r2 == [r EXCEPT !["rax"] = Callback]
<1>0. a \in 0..4 /\ v \in 0..252 /\ f \in 0..3 /\ f <= a
  BY Sizes
<1>1. i <= 6 + a + v + f =>
       /\ \A j \in 1..a : i >= 3 + j => m[-16 - 8 * j] = ArgumentWord(j)
       /\ v = 1 /\ i >= 4 + a => m[-16] = ArgumentWord(4)
       /\ i >= 5 + a + v => r["rcx"] = Object
       /\ \A j \in 1..f :
            i >= 5 + a + v + j => r[ArgumentRegisters[j + 1]] = ArgumentWord(j)
  BY DEF Carried
<1>2. r2["rax"] = Callback /\ r2["rcx"] = r["rcx"]
  BY RegistersAre
<1> HIDE DEF a, v, f
<1>3. /\ i <= 6 + a + v + f /\ ~(6 + a + v + f <= 4 + a + v)
      /\ \A j \in 1..a : i >= 3 + j
      /\ i >= 4 + a /\ i >= 5 + a + v
      /\ \A j \in 1..f : i >= 5 + a + v + j /\ j + 1 \in 1..4
  BY <1>0
<1>4. \A j \in 1..f : r2[ArgumentRegisters[j + 1]] = r[ArgumentRegisters[j + 1]]
  BY <1>3, RegistersDiffer
<1> HIDE DEF i, r2
<1>5. Carried(n, 6 + a + v + f, r2, m)
  BY <1>1, <1>2, <1>3, <1>4 DEF Carried, a, v, f
<1> QED
  BY <1>5 DEF r2, a, v, f

(* After the call nothing is claimed. *)
LEMMA CarriedAfter ==
  ASSUME NEW n \in Counts, NEW i \in Int, i > 6 + A(n) + V(n) + F(n), NEW r, NEW m
  PROVE  Carried(n, i, r, m)
<1> DEFINE a == A(n)
           v == V(n)
           f == F(n)
<1>0. a \in 0..4 /\ v \in 0..252 /\ f \in 0..3
  BY Sizes
<1>1. i > 6 + a + v + f
  OBVIOUS
<1> HIDE DEF a, v, f
<1>2. ~(i <= 6 + a + v + f) /\ ~(i <= 4 + a + v) /\ i # 6 + a + v + f
  BY <1>0, <1>1
<1> QED
  BY <1>2 DEF Carried, a, v, f

(* The arguments on entry. *)
LEMMA CarriedAtEntry ==
  ASSUME NEW n \in Counts, NEW m, NEW r,
         \A j \in 1..A(n) : r[ArgumentRegisters[j]] = ArgumentWord(j)
  PROVE  Carried(n, 1, r, m)
<1> DEFINE a == A(n)
           v == V(n)
           f == F(n)
<1>0. a \in 0..4 /\ v \in 0..252 /\ f \in 0..3
  BY Sizes
<1>1. \A j \in 1..a : r[ArgumentRegisters[j]] = ArgumentWord(j)
  OBVIOUS
<1> HIDE DEF a, v, f
<1>2. /\ \A j \in 1..a : ~(1 >= 3 + j)
      /\ ~(1 >= 4 + a) /\ ~(1 >= 5 + a + v) /\ 1 # 6 + a + v + f
      /\ \A j \in 1..f : ~(1 >= 5 + a + v + j)
  BY <1>0
<1> QED
  BY <1>1, <1>2 DEF Carried, a, v, f

CarriedNow == Carried(nargs, ip, regs, mem)

CarriedNext == Carried(nargs, ip + 1, regs', mem')

(* More of what the invariant says where the program is at an instruction. *)
LEMMA AtIsMore ==
  ASSUME ThunkInv, NEW op, Is(op)
  PROVE  /\ nargs \in ArgumentCounts /\ nargs \in Counts
         /\ DOMAIN regs = Registers /\ DOMAIN mem = Stack
<1>1. state = "running"
  BY DEF Is
<1> QED
  BY <1>1, RunningIs

(* push rbp moves no argument. *)
LEMMA PushCarries ==
  ASSUME ThunkInv, CarriedNow, nargs <= 4, Push PROVE CarriedNext
<1>1. /\ Is("push") /\ mem' = [mem EXCEPT ![rsp - 8] = regs[reg]]
      /\ regs' = [regs EXCEPT !["rsp"] = Address(rsp - 8)]
  BY DEF Push, PushWord, Set
<1>2. /\ state = "running" /\ code[ip].op = "push"
      /\ nargs \in Counts /\ Layout(nargs, code) /\ ip \in 1..Len(code)
  BY <1>1, AtIs
<1>3. ip = 1
  BY <1>2, Where
<1>4. rsp - 8 = -8
  <2>1. rsp = Sp(nargs, 1)
    BY <1>2, <1>3, RunningIs
  <2> QED
    BY <1>2, <2>1, SpAt
<1>5. DOMAIN regs = Registers /\ DOMAIN mem = Stack /\ nargs \in ArgumentCounts
  BY <1>1, AtIsMore
<1>6. \A x \in Registers : x \notin {"rsp", "rbp"} => regs'[x] = regs[x]
  BY <1>1, <1>5
<1>7. \A x \in Stack : x <= -16 => mem'[x] = mem[x]
  <2> TAKE x \in Stack
  <2> HAVE x <= -16
  <2>1. x # -8
    BY StackIsInt
  <2> QED
    BY <1>1, <1>4, <1>5, <2>1
<1>8. ip \in {1, 2, 3 + A(nargs) + V(nargs)}
  BY <1>3
<1> QED
  BY <1>5, <1>6, <1>7, <1>8, CarriedBy DEF CarriedNow, CarriedNext

(* mov rbp,rsp moves no argument. *)
LEMMA MoveFrameCarries ==
  ASSUME ThunkInv, CarriedNow, nargs <= 4, MoveFrame PROVE CarriedNext
<1>1. Is("mov") /\ regs' = [regs EXCEPT !["rbp"] = regs["rsp"]] /\ mem' = mem
  BY DEF MoveFrame, Set
<1>2. /\ state = "running" /\ code[ip].op = "mov"
      /\ nargs \in Counts /\ Layout(nargs, code) /\ ip \in 1..Len(code)
  BY <1>1, AtIs
<1>3. ip \in {1, 2, 3 + A(nargs) + V(nargs)}
  BY <1>2, Where
<1>5. DOMAIN regs = Registers /\ nargs \in ArgumentCounts
  BY <1>1, AtIsMore
<1>6. \A x \in Registers : x \notin {"rsp", "rbp"} => regs'[x] = regs[x]
  BY <1>1, <1>5
<1>7. \A x \in Stack : x <= -16 => mem'[x] = mem[x]
  BY <1>1
<1> QED
  BY <1>3, <1>5, <1>6, <1>7, CarriedBy DEF CarriedNow, CarriedNext

(* sub rsp,0x20 moves no argument. *)
LEMMA ReserveCarries ==
  ASSUME ThunkInv, CarriedNow, nargs <= 4, Reserve PROVE CarriedNext
<1>1. /\ Is("reserve") /\ mem' = mem
      /\ regs' = [regs EXCEPT !["rsp"] = Address(rsp - code[ip].disp)]
  BY DEF Reserve, Set
<1>2. /\ state = "running" /\ code[ip].op = "reserve"
      /\ nargs \in Counts /\ Layout(nargs, code) /\ ip \in 1..Len(code)
  BY <1>1, AtIs
<1>3. ip \in {1, 2, 3 + A(nargs) + V(nargs)}
  BY <1>2, Where
<1>5. DOMAIN regs = Registers /\ nargs \in ArgumentCounts
  BY <1>1, AtIsMore
<1>6. \A x \in Registers : x \notin {"rsp", "rbp"} => regs'[x] = regs[x]
  BY <1>1, <1>5
<1>7. \A x \in Stack : x <= -16 => mem'[x] = mem[x]
  BY <1>1
<1> QED
  BY <1>3, <1>5, <1>6, <1>7, CarriedBy DEF CarriedNow, CarriedNext

(* mov [rbp-..],reg puts one argument aside. *)
LEMMA PutAsideCarries ==
  ASSUME ThunkInv, CarriedNow, nargs <= 4, PutAside PROVE CarriedNext
<1>1. /\ Is("store") /\ regs' = regs
      /\ mem' = [mem EXCEPT ![rbp + code[ip].disp] = regs[reg]]
  BY DEF PutAside
<1>2. /\ state = "running" /\ code[ip].op = "store"
      /\ nargs \in Counts /\ Layout(nargs, code) /\ ip \in 1..Len(code)
  BY <1>1, AtIs
<1>0. A(nargs) \in 0..4 /\ V(nargs) \in 0..252 /\ F(nargs) \in 0..3
  BY <1>1, AtIs
<1>3. PICK k \in 1..A(nargs) : /\ ip = 2 + k /\ code[ip].reg = ArgumentRegisters[k]
                               /\ code[ip].disp = Aside(k)
  BY <1>2, Where
<1>4. ip = 2 + k /\ k \in 1..A(nargs)
  BY <1>3
<1>5. k \in Int /\ ip \in 3..(8 + A(nargs) + V(nargs) + F(nargs))
  BY <1>0, <1>4
<1>6. rbp = -8
  BY <1>2, <1>5, RunningIs
<1>7. rbp + code[ip].disp = -16 - 8 * k
  BY <1>3, <1>5, <1>6 DEF Aside
<1>8. mem' = [mem EXCEPT ![-16 - 8 * k] = regs[ArgumentRegisters[k]]]
  BY <1>1, <1>3, <1>7 DEF reg
<1>9. DOMAIN mem = Stack /\ nargs \in ArgumentCounts
  BY <1>1, AtIsMore
<1>10. Carried(nargs, 2 + k, regs, mem)
  BY <1>4 DEF CarriedNow
<1>11. Carried(nargs, 2 + k + 1, regs,
               [mem EXCEPT ![-16 - 8 * k] = regs[ArgumentRegisters[k]]])
  BY <1>4, <1>9, <1>10, CarriedByStore
<1> QED
  BY <1>1, <1>4, <1>8, <1>11 DEF CarriedNext

(* push [rbp+argpos] reads the fourth argument where it has been put aside. *)
LEMMA PushMemoryCarries ==
  ASSUME ThunkInv, CarriedNow, nargs <= 4, PushMemory PROVE CarriedNext
<1>1. /\ Is("pushmem")
      /\ mem' = [mem EXCEPT ![rsp - 8] = mem[rbp + code[ip].disp]]
      /\ regs' = [regs EXCEPT !["rsp"] = Address(rsp - 8)]
  BY DEF PushMemory, PushWord, Set
<1>2. /\ state = "running" /\ code[ip].op = "pushmem"
      /\ nargs \in Counts /\ Layout(nargs, code) /\ ip \in 1..Len(code)
  BY <1>1, AtIs
<1>0. /\ A(nargs) \in 0..4 /\ V(nargs) \in 0..252 /\ F(nargs) \in 0..3
      /\ nargs = F(nargs) + V(nargs)
      /\ V(nargs) > 0 => F(nargs) = 3
  BY <1>2, Sizes
<1>3. PICK j \in 1..V(nargs) : /\ ip = 2 + A(nargs) + j
                               /\ code[ip].disp = -32 - 8 * V(nargs) + 8 * (j - 1)
  BY <1>2, Where
<1>4. j \in 1..V(nargs)
  BY <1>3
(* No more than one argument is pushed. *)
<1>5. V(nargs) = 1 /\ j = 1
  <2>1. V(nargs) > 0
    BY <1>0, <1>4
  <2>2. nargs = 3 + V(nargs)
    BY <1>0, <2>1
  <2>3. V(nargs) = 1
    BY <1>0, <2>1, <2>2
  <2> QED
    BY <1>4, <2>3
<1>6. ip = 3 + A(nargs)
  <2>1. ip = 2 + A(nargs) + 1
    BY <1>3, <1>5
  <2> QED
    BY <1>0, <2>1
<1>7. /\ ip + 1 = 4 + A(nargs) /\ ip \in 2..(3 + A(nargs))
      /\ ip \in 3..(8 + A(nargs) + V(nargs) + F(nargs))
  BY <1>0, <1>6
<1>8. rbp = -8 /\ rsp = -8
  <2>1. rbp = -8 /\ rsp = Sp(nargs, ip)
    BY <1>2, <1>7, RunningIs
  <2> QED
    BY <1>2, <1>7, <2>1, SpAt
<1>9. rsp - 8 = -16 /\ rbp + code[ip].disp = -48
  <2>1. code[ip].disp = -32 - 8 * 1 + 8 * (1 - 1)
    BY <1>3, <1>5
  <2> QED
    BY <1>8, <2>1
<1>10. DOMAIN mem = Stack /\ DOMAIN regs = Registers /\ nargs \in ArgumentCounts
  BY <1>1, AtIsMore
<1>11. \A x \in Registers : x \notin {"rsp", "rbp"} => regs'[x] = regs[x]
  BY <1>1, <1>10
<1>12. Carried(nargs, 3 + A(nargs), regs, mem)
  BY <1>6 DEF CarriedNow
<1>13. Carried(nargs, 4 + A(nargs), regs', [mem EXCEPT ![-16] = mem[-48]])
  BY <1>5, <1>10, <1>11, <1>12, CarriedByPush
<1> QED
  BY <1>1, <1>7, <1>9, <1>13 DEF CarriedNext

(* The object and the callback come to their registers. *)
LEMMA LoadConstantCarries ==
  ASSUME ThunkInv, CarriedNow, nargs <= 4, LoadConstant PROVE CarriedNext
<1>1. mem' = mem
  BY DEF LoadConstant
<1>2. ASSUME Is("object"), regs' = [regs EXCEPT ![reg] = Object] PROVE CarriedNext
  <2>1. /\ state = "running" /\ code[ip].op = "object"
        /\ nargs \in Counts /\ Layout(nargs, code) /\ ip \in 1..Len(code)
    BY <1>2, AtIs
  <2>2. A(nargs) \in 0..4 /\ V(nargs) \in 0..252
    BY <1>2, AtIs
  <2>3. ip = 4 + A(nargs) + V(nargs) /\ reg = "rcx"
    BY <2>1, Where DEF reg
  <2>4. ip + 1 = 5 + A(nargs) + V(nargs)
    BY <2>2, <2>3
  <2>5. DOMAIN regs = Registers
    BY <1>2, AtIsMore
  <2>6. Carried(nargs, 4 + A(nargs) + V(nargs), regs, mem)
    BY <2>3 DEF CarriedNow
  <2>7. Carried(nargs, 5 + A(nargs) + V(nargs), [regs EXCEPT !["rcx"] = Object], mem)
    BY <2>1, <2>5, <2>6, CarriedByObject
  <2> QED
    BY <1>1, <1>2, <2>3, <2>4, <2>7 DEF CarriedNext
<1>3. ASSUME Is("callback"), regs' = [regs EXCEPT ![reg] = Callback] PROVE CarriedNext
  <2>1. /\ state = "running" /\ code[ip].op = "callback"
        /\ nargs \in Counts /\ Layout(nargs, code) /\ ip \in 1..Len(code)
    BY <1>3, AtIs
  <2>2. A(nargs) \in 0..4 /\ V(nargs) \in 0..252 /\ F(nargs) \in 0..3
    BY <1>3, AtIs
  <2>3. ip = 5 + A(nargs) + V(nargs) + F(nargs) /\ reg = "rax"
    BY <2>1, Where DEF reg
  <2>4. ip + 1 = 6 + A(nargs) + V(nargs) + F(nargs)
    BY <2>2, <2>3
  <2>5. DOMAIN regs = Registers
    BY <1>3, AtIsMore
  <2>6. Carried(nargs, 5 + A(nargs) + V(nargs) + F(nargs), regs, mem)
    BY <2>3 DEF CarriedNow
  <2>7. Carried(nargs, 6 + A(nargs) + V(nargs) + F(nargs),
                [regs EXCEPT !["rax"] = Callback], mem)
    BY <2>1, <2>5, <2>6, CarriedByCallback
  <2> QED
    BY <1>1, <1>3, <2>3, <2>4, <2>7 DEF CarriedNext
<1> QED
  BY <1>2, <1>3 DEF LoadConstant, Set

(* mov reg,[rbp-..] moves one argument one place further. *)
LEMMA FetchCarries ==
  ASSUME ThunkInv, CarriedNow, nargs <= 4, Fetch PROVE CarriedNext
<1>1. /\ Is("load") /\ mem' = mem
      /\ regs' = [regs EXCEPT ![reg] = mem[rbp + code[ip].disp]]
  BY DEF Fetch, Set
<1>2. /\ state = "running" /\ code[ip].op = "load"
      /\ nargs \in Counts /\ Layout(nargs, code) /\ ip \in 1..Len(code)
  BY <1>1, AtIs
<1>0. A(nargs) \in 0..4 /\ V(nargs) \in 0..252 /\ F(nargs) \in 0..3
  BY <1>1, AtIs
<1>3. PICK k \in 1..F(nargs) : /\ ip = 4 + A(nargs) + V(nargs) + k
                               /\ code[ip].reg = ArgumentRegisters[k + 1]
                               /\ code[ip].disp = Aside(k)
  BY <1>2, Where
<1>4. ip = 4 + A(nargs) + V(nargs) + k /\ k \in 1..F(nargs)
  BY <1>3
<1>5. /\ ip \in 3..(8 + A(nargs) + V(nargs) + F(nargs)) /\ k \in Int
      /\ ip + 1 = 5 + A(nargs) + V(nargs) + k
  BY <1>0, <1>4
<1>6. rbp = -8
  BY <1>2, <1>5, RunningIs
<1>7. rbp + code[ip].disp = -16 - 8 * k
  BY <1>3, <1>5, <1>6 DEF Aside
<1>8. regs' = [regs EXCEPT ![ArgumentRegisters[k + 1]] = mem[-16 - 8 * k]]
  BY <1>1, <1>3, <1>7 DEF reg
<1>9. DOMAIN regs = Registers
  BY <1>1, AtIsMore
<1>10. Carried(nargs, 4 + A(nargs) + V(nargs) + k, regs, mem)
  BY <1>4 DEF CarriedNow
<1>11. Carried(nargs, 5 + A(nargs) + V(nargs) + k,
               [regs EXCEPT ![ArgumentRegisters[k + 1]] = mem[-16 - 8 * k]], mem)
  BY <1>2, <1>4, <1>9, <1>10, CarriedByLoad
<1> QED
  BY <1>1, <1>5, <1>8, <1>11 DEF CarriedNext

(* The arguments of a thunk for no more than four are where the code that runs
   has brought them. *)
ArgumentsInv ==
  /\ ThunkInv
  /\ state \in {"running", "calling"} /\ nargs <= 4 => CarriedNow

(* Every instruction leaves the arguments where Carried says. *)
LEMMA ExecuteCarries ==
  ASSUME ThunkInv, nargs <= 4, state = "running" => CarriedNow, Execute,
         state' \in {"running", "calling"}
  PROVE  CarriedNow'
<1>1. ASSUME Proceed, CarriedNext PROVE CarriedNow'
  <2>1. nargs' = nargs /\ ip' = ip + 1
    BY <1>1 DEF Proceed
  <2> QED
    BY <1>1, <2>1 DEF CarriedNext, CarriedNow
<1>2. state = "running"
  BY DEF Execute, Push, PushMemory, MoveFrame, PutAside, Fetch, Reserve, LoadConstant,
     Call, Restore, Pop, Ret, Is
<1>3. CASE Push
  BY <1>1, <1>2, <1>3, PushCarries DEF Push
<1>4. CASE PushMemory
  BY <1>1, <1>2, <1>4, PushMemoryCarries DEF PushMemory
<1>5. CASE MoveFrame
  BY <1>1, <1>2, <1>5, MoveFrameCarries DEF MoveFrame
<1>6. CASE PutAside
  BY <1>1, <1>2, <1>6, PutAsideCarries DEF PutAside
<1>7. CASE Fetch
  BY <1>1, <1>2, <1>7, FetchCarries DEF Fetch
<1>8. CASE Reserve
  BY <1>1, <1>2, <1>8, ReserveCarries DEF Reserve
<1>9. CASE LoadConstant
  BY <1>1, <1>2, <1>9, LoadConstantCarries DEF LoadConstant
<1>10. CASE Call
  BY <1>2, <1>10 DEF Call, CarriedNow
<1>11. ASSUME Is("restore") \/ Is("pop"), Proceed PROVE CarriedNow'
  <2>1. /\ nargs \in Counts /\ Layout(nargs, code) /\ ip \in 1..Len(code)
    BY <1>2, RunningIs
  <2>2. A(nargs) \in 0..4 /\ V(nargs) \in 0..252 /\ F(nargs) \in 0..3
    BY <2>1, Sizes
  <2>3. code[ip].op = "restore" \/ code[ip].op = "pop"
    BY <1>11 DEF Is
  <2>4. \/ ip = 7 + A(nargs) + V(nargs) + F(nargs)
        \/ ip = 8 + A(nargs) + V(nargs) + F(nargs)
    BY <2>1, <2>3, Where
  <2>5. ip + 1 \in Int /\ ip + 1 > 6 + A(nargs) + V(nargs) + F(nargs)
    BY <2>2, <2>4
  <2>6. CarriedNext
    BY <2>1, <2>5, CarriedAfter DEF CarriedNext
  <2> QED
    BY <1>1, <1>11, <2>6
<1>12. CASE Restore
  BY <1>11, <1>12 DEF Restore
<1>13. CASE Pop
  BY <1>11, <1>13 DEF Pop
<1>14. CASE Ret
  BY <1>14 DEF Ret
<1> QED
  BY <1>3, <1>4, <1>5, <1>6, <1>7, <1>8, <1>9, <1>10, <1>12, <1>13, <1>14 DEF Execute

(* So does the call of the thunk. *)
LEMMA EnterCarries == ASSUME ThunkInv, Enter PROVE CarriedNow'
<1>1. nargs' = nargs /\ ip' = 1 /\ state \in {"made", "back"}
  BY DEF Enter
<1>2. regs' = [r \in Registers |->
                   IF \E i \in 1..Least(nargs, 4) : ArgumentRegisters[i] = r
                   THEN ArgumentWord(CHOOSE i \in 1..4 : ArgumentRegisters[i] = r)
                   ELSE CASE r = "rsp" -> Address(0)
                          [] r = "rbp" -> CallerFrame
                          [] OTHER -> Garbage]
  BY DEF Enter
<1>3. nargs \in Counts
  BY <1>1, CountsOf DEF ThunkInv
<1>4. A(nargs) \in 0..4
  BY <1>3, Sizes
<1>5. ASSUME NEW j \in 1..A(nargs) PROVE regs'[ArgumentRegisters[j]] = ArgumentWord(j)
  <2>1. j \in 1..4 /\ j \in 1..Least(nargs, 4)
    BY <1>4 DEF A
  <2>2. ArgumentRegisters[j] \in Registers
    BY <2>1, RegistersDiffer
  <2>3. (CHOOSE i \in 1..4 : ArgumentRegisters[i] = ArgumentRegisters[j]) = j
    BY <2>1, RegistersDiffer
  <2>4. \E i \in 1..Least(nargs, 4) : ArgumentRegisters[i] = ArgumentRegisters[j]
    BY <2>1
  <2> QED
    BY <1>2, <2>2, <2>3, <2>4
<1>6. Carried(nargs, 1, regs', mem')
  BY <1>3, <1>5, CarriedAtEntry
<1> QED
  BY <1>1, <1>6 DEF CarriedNow

(* After the return of the callback nothing is said of them. *)
LEMMA CallbackReturnsCarries == ASSUME ThunkInv, CallbackReturns PROVE CarriedNow'
<1>1. state = "calling" /\ nargs' = nargs /\ ip' = ip + 1
  BY DEF CallbackReturns
<1>2. nargs \in Counts
  BY <1>1, RunningIs
<1>3. A(nargs) \in 0..4 /\ V(nargs) \in 0..252 /\ F(nargs) \in 0..3
  BY <1>2, Sizes
<1>4. ip = 6 + A(nargs) + V(nargs) + F(nargs)
  BY <1>1 DEF ThunkInv
<1>5. ip + 1 \in Int /\ ip + 1 > 6 + A(nargs) + V(nargs) + F(nargs)
  BY <1>3, <1>4
<1>6. Carried(nargs, ip + 1, regs', mem')
  BY <1>2, <1>5, CarriedAfter
<1> QED
  BY <1>1, <1>6 DEF CarriedNow

(* A thunk for no more than four arguments, which those of the logger are,
   gives the instance method its object and every argument, one place further:
   whatever counts are asked for, and by every call of every thunk.  With five
   arguments or more it does not, as the run thunk_many_arguments shows. *)
THEOREM ArgumentsAreForwarded == Spec => [](nargs <= 4 => ArgumentsForwarded)
<1>1. Init => ArgumentsInv
  <2>1. Init => ThunkInv
    BY WordsAre DEF Init, ThunkInv, Typed
  <2> QED
    BY <2>1 DEF Init, ArgumentsInv
<1>2. ArgumentsInv /\ ThunkInv' /\ [Next]_vars => ArgumentsInv'
  <2> SUFFICES ASSUME ArgumentsInv, ThunkInv', [Next]_vars,
                      state' \in {"running", "calling"}, nargs' <= 4
               PROVE  CarriedNow'
    BY DEF ArgumentsInv
  <2>0. ThunkInv
    BY DEF ArgumentsInv
  <2>1. ASSUME NEW n \in ArgumentCounts, Create(n) \/ CreationFails(n) PROVE CarriedNow'
    BY <2>1 DEF Create, CreationFails
  <2>2. CASE Enter
    BY <2>0, <2>2, EnterCarries
  <2>3. CASE Execute
    <3>1. nargs' = nargs
      BY <2>3 DEF Execute, Push, PushMemory, MoveFrame, PutAside, Fetch, Reserve,
         LoadConstant, Call, Restore, Pop, Ret, Proceed
    <3>2. nargs <= 4 /\ (state = "running" => CarriedNow)
      BY <3>1 DEF ArgumentsInv
    <3> QED
      BY <2>0, <2>3, <3>2, ExecuteCarries
  <2>4. CASE CallbackReturns
    BY <2>0, <2>4, CallbackReturnsCarries
  <2>5. CASE UNCHANGED vars
    BY <2>5 DEF vars, ArgumentsInv, CarriedNow
  <2> QED
    BY <2>1, <2>2, <2>3, <2>4, <2>5 DEF Next
<1>3. ArgumentsInv => (nargs <= 4 => ArgumentsForwarded)
  <2> SUFFICES ASSUME ArgumentsInv, nargs <= 4, state = "calling"
               PROVE  /\ regs["rax"] = Callback
                      /\ Place(1) = Object
                      /\ \A i \in 1..nargs : Place(i + 1) = ArgumentWord(i)
    BY DEF ArgumentsForwarded
  <2> DEFINE a == A(nargs)
             v == V(nargs)
             f == F(nargs)
  <2>1. ThunkInv /\ CarriedNow
    BY DEF ArgumentsInv
  <2>2. nargs \in Counts /\ rsp = Sp(nargs, ip)
    BY <2>1, RunningIs
  <2>3. /\ a \in 0..4 /\ v \in 0..252 /\ f \in 0..3 /\ nargs = f + v
        /\ v > 0 => f = 3
        /\ v = 0 => f = nargs
    BY <2>2, Sizes
  <2>4. ip = 6 + a + v + f
    BY <2>1 DEF ThunkInv
  <2>5. Carried(nargs, 6 + a + v + f, regs, mem)
    BY <2>1, <2>4 DEF CarriedNow
  <2>6. 6 + a + v + f <= 6 + a + v + f =>
         /\ v = 1 /\ 6 + a + v + f >= 4 + a => mem[-16] = ArgumentWord(4)
         /\ 6 + a + v + f >= 5 + a + v => regs["rcx"] = Object
         /\ \A j \in 1..f : 6 + a + v + f >= 5 + a + v + j =>
                              regs[ArgumentRegisters[j + 1]] = ArgumentWord(j)
    BY <2>5 DEF Carried
  <2>7. regs["rax"] = Callback
    BY <2>5 DEF Carried
  <2>8. v \in 0..v /\ ip \in (4 + a + v)..(7 + a + v + f)
    <3> HIDE DEF a, v, f
    <3> QED
      BY <2>3, <2>4
  <2>9. rsp = -40 - 8 * v
    BY <2>2, <2>8, SpAt
  <2> HIDE DEF a, v, f
  <2>10. /\ v = 1 => mem[-16] = ArgumentWord(4)
         /\ regs["rcx"] = Object
         /\ \A j \in 1..f : regs[ArgumentRegisters[j + 1]] = ArgumentWord(j)
    BY <2>3, <2>6
  <2>11. Place(1) = Object
    BY <2>10, RegistersDiffer DEF Place
  <2>12. ASSUME NEW i \in 1..nargs PROVE Place(i + 1) = ArgumentWord(i)
    <3>1. i \in 1..f \/ (i = 4 /\ v = 1)
      <4>1. v = 0 \/ (v > 0 /\ f = 3)
        BY <2>3
      <4>2. nargs \in Int /\ i \in Int /\ i >= 1 /\ i <= nargs
        BY <2>3
      <4> QED
        BY <2>3, <4>1, <4>2
    <3>2. CASE i \in 1..f
      <4>1. i + 1 <= 4
        BY <2>3, <3>2
      <4> QED
        BY <2>10, <3>2, <4>1 DEF Place
    <3>3. CASE i = 4 /\ v = 1
      <4>1. i + 1 = 5 /\ ~(i + 1 <= 4) /\ rsp + 8 * (i + 1 - 1) = -16
        BY <2>9, <3>3
      <4> QED
        BY <2>10, <3>3, <4>1 DEF Place
    <3> QED
      BY <3>1, <3>2, <3>3
  <2> QED
    BY <2>7, <2>11, <2>12
<1> QED
  BY <1>1, <1>2, <1>3, Invariant, PTL DEF Spec
=============================================================================
