--------------------------------- MODULE Pr ---------------------------------
(***************************************************************************)
(* ck_pr(3): what the headers of include/gcc and the fallbacks of          *)
(* include/ck_pr.h make of every operation on every platform, the atomic   *)
(* operations as the accesses their instructions make, and the fences.     *)
(* Every thread makes one call on one word, on the same platform; or a     *)
(* processor performs two accesses, first and second in program order,     *)
(* with a fence between them.                                              *)
(*                                                                         *)
(* An implementation is a record: how it accesses the word, the value its  *)
(* instructions compute for the word, and what it returns.                 *)
(*   instr    one atomic instruction, or one compiler builtin;             *)
(*   llsc     load-linked, compute, store-conditional, and again;          *)
(*   casloop  load, compute, ck_pr_cas_value, and again (ck_pr.h);         *)
(*   reread   a plain load for the new value, another for the value to     *)
(*            compare with, and a compare-and-swap (s390x).                *)
(*                                                                         *)
(* Operand types that the headers treat alike are one type here: "32" is   *)
(* 32, int and uint, "8" is 8, 16, char and short, "pair" is a double word *)
(* (64_2, ptr_2).  Floating point types are left out.  Of the narrow types *)
(* only 16 has the bit test operations.  A word is much narrower than in   *)
(* the code: an int has IntBits bits, a char one less, and a pointer one   *)
(* more where the code's is wider.                                         *)
(***************************************************************************)
EXTENDS Integers, Sequences, FiniteSets, TLC

CONSTANTS
  Threads,       \* the threads
  Platforms,     \* the platforms checked
  WithDefects,   \* whether what is known to be wrong is checked too
  IntBits,       \* the width of an int
  Interferer     \* the thread whose calls are only Meddling

-----------------------------------------------------------------------------
(* The implementations.                                                      *)

Binary == {"add", "sub", "and", "or", "xor"}
Unary == {"inc", "dec", "neg", "not"}
Zero == {"inc_zero", "dec_zero", "neg_zero"}
BitTest == {"btc", "btr", "bts"}
Word64 == {"ptr", "64", "32", "8"}     \* the types of a 64-bit platform
Word32 == {"ptr", "32", "8"}           \* and of a 32-bit one
NoBytes == {"ptr", "64", "32"}

Instr(body, ret) == [how |-> "instr", body |-> body, ret |-> ret]
LlSc(body, ret) == [how |-> "llsc", body |-> body, ret |-> ret]
CasLoop(body, ret) == [how |-> "casloop", body |-> body, ret |-> ret]
Reread(body) == [how |-> "reread", body |-> body, ret |-> "void"]

\* The same implementation of some operations for some types.
Over(ops, types, Impl(_)) == [x \in ops \X types |-> Impl(x[1])]
Void(op) == Instr(op, "void")
VoidLlSc(op) == LlSc(op, "void")

\* Plain loads and stores, one access each.
Access(types) ==
  Over({"load"}, types, LAMBDA op : Instr("keep", "old")) @@
  Over({"store"}, types, LAMBDA op : Instr("swap", "void"))

\* Compare-and-swap by an instruction, and by load-linked and
\* store-conditional with the comparison in between.
Cas(types) ==
  Over({"cas"}, types, LAMBDA op : Instr("cas", "success")) @@
  Over({"cas_value"}, types, LAMBDA op : Instr("cas", "success_old"))
CasLlSc(types) ==
  Over({"cas"}, types, LAMBDA op : LlSc("cas", "success")) @@
  Over({"cas_value"}, types, LAMBDA op : LlSc("cas", "success_old"))

-----------------------------------------------------------------------------
(* x86_64 and x86: instructions with a lock prefix. *)

LockUnary(types) ==
  Over(Unary, types, Void) @@
  Over({"inc_zero"}, types, LAMBDA op : Instr("inc", "flag")) @@
  Over({"dec_zero"}, types, LAMBDA op : Instr("dec", "flag")) @@
  Over({"neg_zero"}, types, LAMBDA op : Instr("neg", "flag"))

x86_64_fas == Over({"fas"}, Word64, LAMBDA op : Instr("swap", "old"))
x86_64_access == Access(Word64)
x86_64_load_2 == Over({"load"}, {"pair"}, LAMBDA op : Instr("keep", "old"))
x86_64_faa == Over({"faa"}, Word64, LAMBDA op : Instr("add", "old"))
x86_64_unary == LockUnary(Word64)
x86_64_binary == Over(Binary, Word64, Void)
x86_64_cas == Cas(Word64)
x86_64_cas_2 == Cas({"pair"})
x86_64_bt == Over(BitTest, Word64, LAMBDA op : Instr(op, "bit"))
x86_64 == x86_64_fas @@ x86_64_access @@ x86_64_load_2 @@ x86_64_faa @@ x86_64_unary
            @@ x86_64_binary @@ x86_64_cas @@ x86_64_cas_2 @@ x86_64_bt

x86_fas == Over({"fas"}, Word32, LAMBDA op : Instr("swap", "old"))
x86_access == Access(Word32)
x86_faa == Over({"faa"}, Word32, LAMBDA op : Instr("add", "old"))
x86_unary == LockUnary(Word32)
x86_binary == Over(Binary, Word32, Void)
x86_cas == Cas(Word32)
x86_bt == Over(BitTest, Word32, LAMBDA op : Instr(op, "bit"))
x86 == x86_fas @@ x86_access @@ x86_faa @@ x86_unary @@ x86_binary @@ x86_cas @@ x86_bt

-----------------------------------------------------------------------------
(* arm, ppc, ppc64 and aarch64 without LSE: load-linked, store-conditional. *)

FaaLlSc(types) == Over({"faa"}, types, LAMBDA op : LlSc("add", "old"))
FasLlSc(types) == Over({"fas"}, types, LAMBDA op : LlSc("swap", "old"))

\* On ARMv7 a 64-bit load is an ldrexd, and a 64-bit store is a loop.
arm_access ==
  Access(Word32) @@
  Over({"load"}, {"64"}, LAMBDA op : Instr("keep", "old")) @@
  Over({"store"}, {"64"}, LAMBDA op : LlSc("swap", "void"))
arm_cas_64 == CasLlSc({"64", "pair"})
arm_cas == CasLlSc(Word32)
arm_fas == FasLlSc(Word32)
arm_unary == Over(Unary, Word32, VoidLlSc)
arm_binary == Over(Binary, Word32, VoidLlSc)
arm_faa == FaaLlSc(Word32)
arm == arm_access @@ arm_cas_64 @@ arm_cas @@ arm_fas @@ arm_unary @@ arm_binary @@ arm_faa

\* sub takes its operands in the opposite order of subf, and the header passes
\* them in the same order: for pointers the word is subtracted from delta.
PpcBinary(types) ==
  Over(Binary, types, VoidLlSc) @@ Over({"sub"}, types, LAMBDA op : LlSc("sub", "void"))
PpcSubPtr == Over({"sub"}, {"ptr"}, LAMBDA op : LlSc("rsub", "void"))

ppc64_access == Access(Word64)
ppc64_cas == CasLlSc(NoBytes)
ppc64_fas == FasLlSc(NoBytes)
ppc64_unary == Over(Unary, NoBytes, VoidLlSc)
ppc64_binary == PpcSubPtr @@ PpcBinary(NoBytes)
ppc64_faa == FaaLlSc(NoBytes)
ppc64 == ppc64_access @@ ppc64_cas @@ ppc64_fas @@ ppc64_unary @@ ppc64_binary @@ ppc64_faa

ppc_access == Access(Word32)
ppc_cas == CasLlSc({"ptr", "32"})
ppc_fas == FasLlSc({"ptr", "32"})
ppc_unary == Over(Unary, {"ptr", "32"}, VoidLlSc)
ppc_binary == PpcSubPtr @@ PpcBinary({"ptr", "32"})
ppc_faa == FaaLlSc({"ptr", "32"})
ppc == ppc_access @@ ppc_cas @@ ppc_fas @@ ppc_unary @@ ppc_binary @@ ppc_faa

aarch64_access == Access(Word64)
aarch64_neg == Over({"neg"}, Word64, VoidLlSc)
llsc_cas_2 == CasLlSc({"pair"})
llsc_cas == CasLlSc(Word64)
llsc_fas == FasLlSc(Word64)
llsc_unary == Over({"inc", "dec", "not"}, Word64, VoidLlSc)
llsc_binary == Over(Binary, Word64, VoidLlSc)
llsc_faa == FaaLlSc(Word64)
aarch64 == aarch64_access @@ aarch64_neg @@ llsc_cas_2 @@ llsc_cas @@ llsc_fas
             @@ llsc_unary @@ llsc_binary @@ llsc_faa

(* aarch64 with LSE.  There is no atomic and, sub or dec: and clears the bits *)
(* of the complement, sub and dec add a negative value, not is an xor with    *)
(* ones.  The pair operation returns whether the old value differed.          *)
lse_cas_2 ==
  Over({"cas"}, {"pair"}, LAMBDA op : Instr("cas", "differs")) @@
  Over({"cas_value"}, {"pair"}, LAMBDA op : Instr("cas", "differs_old"))
lse_cas == Cas(Word64)
lse_fas == Over({"fas"}, Word64, LAMBDA op : Instr("swap", "old"))
lse_unary ==
  Over({"inc"}, Word64, Void) @@
  Over({"dec"}, Word64, LAMBDA op : Instr("add_ones", "void")) @@
  Over({"not"}, Word64, LAMBDA op : Instr("xor_ones", "void"))
lse_binary ==
  Over({"add", "or", "xor"}, Word64, Void) @@
  Over({"and"}, Word64, LAMBDA op : Instr("clear_not", "void")) @@
  Over({"sub"}, Word64, LAMBDA op : Instr("add_neg", "void"))
lse_faa == Over({"faa"}, Word64, LAMBDA op : Instr("add", "old"))
aarch64_lse == aarch64_access @@ aarch64_neg @@ lse_cas_2 @@ lse_cas @@ lse_fas
                 @@ lse_unary @@ lse_binary @@ lse_faa

-----------------------------------------------------------------------------
(* riscv64: AMO instructions, and lr/sc for what has none.  is_zero adds     *)
(* again what the instruction has added.                                     *)

riscv64_access == Access(Word64)
riscv64_cas == CasLlSc(NoBytes)
riscv64_faa == Over({"faa"}, NoBytes, LAMBDA op : Instr("add", "old"))
riscv64_fas == Over({"fas"}, NoBytes, LAMBDA op : Instr("swap", "old"))
riscv64_add_inc ==
  Over({"add", "inc"}, NoBytes, Void) @@
  Over({"inc_zero"}, NoBytes, LAMBDA op : Instr("inc", "again"))
riscv64_sub_dec ==
  Over({"sub"}, NoBytes, LAMBDA op : Instr("add_neg", "void")) @@
  Over({"dec"}, NoBytes, LAMBDA op : Instr("add_ones", "void")) @@
  Over({"dec_zero"}, NoBytes, LAMBDA op : Instr("add_ones", "again"))
riscv64_neg_not == Over({"neg", "not"}, NoBytes, VoidLlSc)
riscv64_binary == Over({"and", "or", "xor"}, NoBytes, Void)
riscv64_btx == Over(BitTest, NoBytes, LAMBDA op : Instr(op, "bit"))
riscv64 == riscv64_access @@ riscv64_cas @@ riscv64_faa @@ riscv64_fas @@ riscv64_add_inc
             @@ riscv64_sub_dec @@ riscv64_neg_not @@ riscv64_binary @@ riscv64_btx

(* s390x: compiler builtins, but not and neg load the word twice. *)
s390x_access == Access(Word64)
s390x_cas == Cas(NoBytes)
s390x_fas == Over({"fas"}, NoBytes, LAMBDA op : Instr("swap", "old"))
s390x_binary == Over(Binary, Word64, Void)
s390x_unary ==
  Over({"inc", "dec"}, Word64, Void) @@ Over({"neg", "not"}, {"64", "32", "8"}, Reread)
s390x_faa == Over({"faa"}, NoBytes, LAMBDA op : Instr("add", "old"))
s390x == s390x_access @@ s390x_cas @@ s390x_fas @@ s390x_binary @@ s390x_unary @@ s390x_faa

(* sparcv9 has little more than compare-and-swap. *)
sparcv9_access == Access(NoBytes) @@ Over({"store"}, {"8"}, LAMBDA op : Instr("swap", "void"))
sparcv9_cas == Cas(NoBytes)
sparcv9_fas == Over({"fas"}, {"32"}, LAMBDA op : Instr("swap", "old"))
sparcv9 == sparcv9_access @@ sparcv9_cas @@ sparcv9_fas

(* Any other platform: the builtins of the compiler. *)
gcc_access == Access(Word64)
gcc_cas == Cas(Word64)
gcc_faa == Over({"faa"}, Word64, LAMBDA op : Instr("add", "old"))
gcc_binary == Over(Binary, Word64, Void)
gcc_unary == Over({"inc", "dec"}, Word64, Void)
gcc == gcc_access @@ gcc_cas @@ gcc_faa @@ gcc_binary @@ gcc_unary

Native ==
  [x86_64 |-> x86_64, x86 |-> x86, sparcv9 |-> sparcv9, ppc64 |-> ppc64, s390x |-> s390x,
   ppc |-> ppc, arm |-> arm, aarch64 |-> aarch64, aarch64_lse |-> aarch64_lse,
   riscv64 |-> riscv64, gcc |-> gcc]

-----------------------------------------------------------------------------
(* The CK_F_PR_ macros of each platform's ck_f_pr.h: what ck_pr.h takes for  *)
(* implemented.                                                              *)

Atomic == {"load", "store", "cas", "cas_value", "faa", "fas"} \cup Binary \cup Unary
Pairs == {"cas", "cas_value"} \X {"pair"}
Plain(types) == {"load", "store"} \X types

x86_64_declared ==
  (Atomic \cup Zero \cup BitTest) \X Word64 \cup Pairs \cup {<<"load", "pair">>}
x86_declared == (Atomic \cup Zero \cup BitTest) \X Word32
arm_declared ==
  Atomic \X Word32 \cup {"load", "store", "cas", "cas_value"} \X {"64"} \cup Pairs
aarch64_declared == Atomic \X Word64 \cup Pairs
ppc_declared == Atomic \X {"ptr", "32"} \cup Plain(Word32)
ppc64_declared == Atomic \X NoBytes \cup Plain(Word64)
s390x_declared == Atomic \X NoBytes \cup Plain(Word64)
sparcv9_declared ==
  {"load", "store", "cas", "cas_value"} \X NoBytes \cup {<<"fas", "32">>}
riscv64_declared == (Atomic \cup Zero \cup BitTest) \X NoBytes \cup Plain(Word64)
gcc_declared == (Atomic \ {"fas", "neg", "not"}) \X Word64

Declared ==
  [x86_64 |-> x86_64_declared, x86 |-> x86_declared, sparcv9 |-> sparcv9_declared,
   ppc64 |-> ppc64_declared, s390x |-> s390x_declared, ppc |-> ppc_declared,
   arm |-> arm_declared, aarch64 |-> aarch64_declared, aarch64_lse |-> aarch64_declared,
   riscv64 |-> riscv64_declared, gcc |-> gcc_declared]

-----------------------------------------------------------------------------
(* ck_pr.h: what is not declared and can be made of a load and a compare and *)
(* swap is.                                                                  *)

fallback_bin == Over(Binary, Word64, LAMBDA op : CasLoop(op, "void"))
fallback_btx == Over(BitTest, Word64, LAMBDA op : CasLoop(op, "bit"))

\* CK_PR_UNARY calls ck_pr_add or ck_pr_sub with 1, whatever these are.
fallback_unary(p, op, t) ==
  LET b == IF op = "inc" THEN "add" ELSE "sub"
      how == IF <<b, t>> \in Declared[p] THEN Native[p][b, t].how ELSE "casloop"
  IN  [how |-> how, body |-> op, ret |-> "void"]

\* CK_PR_UNARY_Z compares the value before with the one that wraps to 0: all
\* ones for inc, but UINT_MAX for pointers, and 1 for dec.
fallback_unary_z ==
  Over({"inc_zero"}, {"ptr"}, LAMBDA op : CasLoop("inc", "was_uint_max")) @@
  Over({"inc_zero"}, Word64, LAMBDA op : CasLoop("inc", "was_ones")) @@
  Over({"dec_zero"}, Word64, LAMBDA op : CasLoop("dec", "was_one"))
fallback_n ==
  Over({"not", "neg"}, Word64, LAMBDA op : CasLoop(op, "void")) @@
  Over({"neg_zero"}, Word64, LAMBDA op : CasLoop("neg", "was_zero"))
fallback_faa_fas ==
  Over({"faa"}, Word64, LAMBDA op : CasLoop("add", "old")) @@
  Over({"fas"}, Word64, LAMBDA op : CasLoop("swap", "old"))
Fallback == fallback_bin @@ fallback_btx @@ fallback_unary_z @@ fallback_n @@ fallback_faa_fas

CanFallBack(p, op, t) ==
  /\ {<<"load", t>>, <<"cas_value", t>>} \subseteq Declared[p]
  /\ <<op, t>> \notin Declared[p]
  /\ <<op, t>> \in DOMAIN Fallback \cup {"inc", "dec"} \X Word64

\* The operations a program can call, and what they are made of.  A declared
\* operation without an implementation does not compile: riscv64 declares
\* neg_zero, and s390x not and neg of pointers.
Provided(p) ==
  {x \in DOMAIN Native[p] : x \in Declared[p] \/ ~CanFallBack(p, x[1], x[2])} \cup
  {x \in (Binary \cup Unary \cup Zero \cup BitTest \cup {"faa", "fas"}) \X Word64 :
     CanFallBack(p, x[1], x[2])}
Implementation(p, op, t) ==
  IF <<op, t>> \in DOMAIN Native[p] THEN Native[p][op, t]
  ELSE IF op \in {"inc", "dec"} THEN fallback_unary(p, op, t) ELSE Fallback[op, t]

-----------------------------------------------------------------------------
(* The fences: the instruction each platform's header gives every            *)
(* ck_pr_fence_strict_T, and the choice ck_pr.h makes between it and a       *)
(* compiler barrier under the memory model the build was configured for.  A  *)
(* fence is the set of pairs of accesses it keeps in order: "l" is a load,   *)
(* "s" a store and "a" a read-modify-write.                                 *)

Kinds == {"l", "s", "a"}
Fences ==
  {"atomic", "atomic_load", "atomic_store", "store_atomic", "load_atomic", "load_store",
   "store_load", "load", "store", "memory", "acquire", "release", "acqrel", "lock", "unlock"}
All == Kinds \X Kinds
LoadLoad == {<<"l", "l">>}
Same(set, x) == [f \in set |-> x]

-----------------------------------------------------------------------------
(* The instructions of the headers, as the pairs they order. *)

\* lfence orders loads, sfence stores, mfence everything.
x86_fence ==
  ("load" :> LoadLoad) @@ ("store" :> {"s", "a"} \X {"s", "a"}) @@
  Same({"atomic", "atomic_load", "atomic_store", "store_atomic", "load_atomic"}, {}) @@
  Same(Fences, All)

\* dmb st orders stores, dmb everything.
arm_fence ==
  Same({"atomic", "atomic_store", "store_atomic", "store"}, {"s", "a"} \X {"s", "a"}) @@
  Same(Fences, All)

\* dmb ishld orders loads before everything.
aarch64_fence == ("load" :> {"l"} \X Kinds) @@ arm_fence

\* lwsync orders everything but a store and a later load, sync everything.
ppc_fence ==
  Same({"atomic_load", "store_load", "memory"}, All) @@
  Same(Fences, All \ {"s", "a"} \X {"l"})

\* fence p,s orders the reads and writes of p before those of s; a
\* read-modify-write is both.
riscv64_fence ==
  LET r == {"l", "a"}
      wr == {"s", "a"}
  IN ("atomic_store" :> Kinds \X wr) @@ ("atomic_load" :> Kinds \X r) @@
     ("store_atomic" :> wr \X Kinds) @@ ("load_atomic" :> r \X Kinds) @@
     ("store" :> wr \X wr) @@ ("store_load" :> wr \X r) @@ ("load" :> r \X r) @@
     ("load_store" :> r \X wr) @@ ("acquire" :> r \X Kinds) @@ ("release" :> Kinds \X wr) @@
     Same(Fences, All)

\* membar with a mask; a read-modify-write is a load and a store.
sparcv9_fence ==
  LET l == {"l", "a"}
      st == {"s", "a"}
  IN Same({"atomic", "atomic_store", "store_atomic", "store"}, st \X st) @@
     Same({"atomic_load", "store_load"}, st \X l) @@
     Same({"load_atomic", "load_store"}, l \X st) @@
     ("load" :> l \X l) @@ ("acquire" :> l \X Kinds) @@ ("release" :> Kinds \X st) @@
     ("acqrel" :> l \X Kinds \cup st \X st) @@ ("unlock" :> Kinds \X st) @@
     Same(Fences, All)

\* __sync_synchronize.
builtin_fence == Same(Fences, All)

Strict ==
  [x86_64 |-> x86_fence, x86 |-> x86_fence, arm |-> arm_fence, aarch64 |-> aarch64_fence,
   ppc |-> ppc_fence, ppc64 |-> ppc_fence, riscv64 |-> riscv64_fence,
   sparcv9 |-> sparcv9_fence, s390x |-> builtin_fence, gcc |-> builtin_fence]

-----------------------------------------------------------------------------
(* ck_pr.h. *)

\* Mutant: release is taken for free under PSO, as acquire might be.
EmitFreeRelease(mm) ==
  CASE mm = "rmo" -> Fences
    [] mm = "pso" -> Fences \ {"atomic_load", "load_atomic", "load", "release"}
    [] mm = "tso" -> {"store_load", "memory"}

\* CK_PR_FENCE_EMIT: the fences that are more than a compiler barrier.
Emit(mm) ==
  CASE mm = "rmo" -> Fences
    [] mm = "pso" -> Fences \ {"atomic_load", "load_atomic", "load"}
    [] mm = "tso" -> {"store_load", "memory"}

Emitted(p, mm, f) == IF f \in Emit(mm) THEN Strict[p][f] ELSE {}

\* What a processor keeps in order by itself under a memory model: TSO all but
\* a store and a later load, PSO loads and what follows them, RMO nothing.
\* Where a read-modify-write is not serializing it is a load and a store.
Hardware(mm) ==
  CASE mm = "tso" -> All \ {<<"s", "l">>}
    [] mm = "pso" -> {"l"} \X Kinds \cup {<<"a", "l">>}
    [] mm = "rmo" -> {}

\* The memory models a platform's processors have, and the models a build may
\* be configured for: the same or a weaker one.
Models == {"tso", "pso", "rmo"}
Weaker(mm) == CASE mm = "tso" -> Models [] mm = "pso" -> {"pso", "rmo"} [] mm = "rmo" -> {"rmo"}
Processors(p) ==
  CASE p \in {"x86_64", "x86", "s390x"} -> {"tso"}
    [] p = "sparcv9"                   -> Models
    [] OTHER                           -> {"rmo"}

-----------------------------------------------------------------------------
(* What doc/ck_pr_fence_* promise. *)

\* lock and unlock order what taking and releasing a lock needs.
Ordered(f) ==
  CASE f = "atomic"       -> {<<"a", "a">>}
    [] f = "atomic_load"  -> {<<"a", "l">>}
    [] f = "atomic_store" -> {<<"a", "s">>}
    [] f = "store_atomic" -> {<<"s", "a">>}
    [] f = "load_atomic"  -> {<<"l", "a">>}
    [] f = "load_store"   -> {<<"l", "s">>}
    [] f = "store_load"   -> {<<"s", "l">>}
    [] f = "load"         -> LoadLoad
    [] f = "store"        -> {"s", "a"} \X {"s", "a"}
    [] f = "memory"       -> All
    [] f \in {"acquire", "lock"}   -> {"l"} \X Kinds
    [] f \in {"release", "unlock"} -> {"l", "s"} \X {"s", "a"}
    [] f = "acqrel"       -> {"l"} \X Kinds \cup {"s"} \X {"s", "a"}

\* What the pages of lock and unlock add for SPARCv9, where a fence is emitted.
\* The store-load of unlock is not in the mask of its membar.
OrderedOnSparc(f) ==
  CASE f = "lock"   -> {"l", "s"} \X {"l", "s"}
    [] f = "unlock" -> {<<"l", "s">>} \cup (IF WithDefects THEN {<<"s", "l">>} ELSE {})
    [] OTHER        -> {}
Promised(p, mm, f) ==
  Ordered(f) \cup (IF p = "sparcv9" /\ mm # "tso" THEN OrderedOnSparc(f) ELSE {})

-----------------------------------------------------------------------------
VARIABLES
  platform, type,  \* what the program was built for, and the type of the word
  w,               \* the width of the word
  word,            \* the word
  call,            \* thread -> [op, arg, cmp]
  reserved,        \* the threads whose reservation of the word is valid
  reg,             \* thread -> the value it works with
  seen,            \* thread -> the value it will compare the word with
  pc,              \* thread -> where it is
  ret,             \* thread -> what it returned
  machine,         \* the platform, and the memory model it was built for
  fence,           \* the fence between the two accesses
  first, second,   \* the kinds of the accesses
  performed        \* the accesses performed so far, in order

vars == <<platform, type, w, word, call, reserved, reg, seen, pc, ret>>
static == <<platform, type, w, call>>
fenceVars == <<machine, fence, first, second, performed>>

-----------------------------------------------------------------------------
(* Two accesses with a fence between them.                                   *)

FenceInit ==
  /\ machine \in [platform : DOMAIN Strict, hw : Models, mm : Models]
  /\ machine.hw \in Processors(machine.platform)
  /\ machine.mm \in Weaker(machine.hw)
  /\ fence \in Fences
  /\ \E x \in Promised(machine.platform, machine.mm, fence) : first = x[1] /\ second = x[2]
  /\ performed = <<>>

PerformFirst ==
  /\ 1 \notin {performed[i] : i \in DOMAIN performed}
  /\ performed' = Append(performed, 1)

\* The second access overtakes the first unless something keeps them in order.
PerformSecond ==
  /\ 2 \notin {performed[i] : i \in DOMAIN performed}
  /\ \/ performed = <<1>>
     \/ <<first, second>> \notin
          Hardware(machine.hw) \cup Emitted(machine.platform, machine.mm, fence)
  /\ performed' = Append(performed, 2)

FenceNext == (PerformFirst \/ PerformSecond) /\ UNCHANGED <<machine, fence, first, second>>

\* A fence keeps in order the accesses its manual page names, on every platform
\* and for every memory model the build may be configured for that the
\* processor is at least as strong as: the second access is never performed
\* before the first.  One pair that a page names is left out unless WithDefects:
\* the store-load of ck_pr_fence_unlock on SPARCv9, which the code does not order.
FenceOrders == performed # <<>> => performed[1] = 1

-----------------------------------------------------------------------------
(* The atomic operations, access by access.                                  *)

ASSUME PrAssumption ==
  /\ Interferer \in Threads
  /\ Platforms \subseteq DOMAIN Native
  /\ IntBits = 2
  /\ WithDefects \in BOOLEAN

Abstract == INSTANCE AtomicWord

\* The operations known not to do what the manual says: sub of pointers has
\* its operands swapped, pair compare-and-swap its result negated, and inc of
\* pointers finds zero where an int would wrap; and not and neg lose updates of
\* other threads.
WrongResult ==
  {"ppc", "ppc64"} \X {"sub"} \X {"ptr"} \cup
  {"aarch64_lse"} \X {"cas", "cas_value"} \X {"pair"} \cup
  {"aarch64", "aarch64_lse", "ppc64", "s390x", "sparcv9", "gcc"} \X {"inc_zero"} \X {"ptr"}
LostUpdate == {"s390x"} \X {"not", "neg"} \X {"64", "32", "8"}

Meddling == {"load", "store", "inc"}
Platforms64 == {"x86_64", "sparcv9", "ppc64", "s390x", "aarch64", "aarch64_lse", "riscv64", "gcc"}
Width(p, t) ==
  IF t \in {"64", "pair"} \/ (t = "ptr" /\ p \in Platforms64) THEN IntBits + 1
  ELSE IF t = "8" THEN IntBits - 1 ELSE IntBits
Values == 0 .. Abstract!Size - 1
\* Arguments: the smallest and largest values, and the one with the sign bit.
Edges == {0, 1, Abstract!Size \div 2, Abstract!Size - 1}
Valued(op) == op \notin Unary \cup Zero \cup {"load"}

\* The calls that can be made, arguments included.
Calls ==
  LET ops == {x[1] : x \in {y \in Provided(platform) : y[2] = type}}
  IN  {c \in [op : ops, arg : Edges, cmp : Edges] :
         /\ Valued(c.op) \/ c.arg = 0
         /\ c.op \in {"cas", "cas_value"} \/ c.cmp = 0}

Impl(t) == Implementation(platform, call[t].op, type)

-----------------------------------------------------------------------------
(* What the instructions compute. *)

\* riscv64: lr.w extends the sign of the word it loads, and CK_PR_CAS_32_S
\* casts compare to int32_t so that it is extended in the same way.
Signed(v) == IF v >= Abstract!Size \div 2 THEN v - Abstract!Size ELSE v
LoadLinkedValue(v) == IF platform = "riscv64" /\ type = "32" THEN Signed(v) ELSE v
CompareOperandUncast(v) == v     \* mutant: no cast, no sign
CompareOperand(v) == IF platform = "riscv64" /\ type = "32" THEN Signed(v) ELSE v

\* The new value of the word, from the value v it has.
NewValue(body, c, v) ==
  CASE body = "keep"      -> v
    [] body = "swap"      -> c.arg
    [] body = "rsub"      -> (c.arg - v) % Abstract!Size
    [] body = "add_ones"  -> (v + Abstract!Size - 1) % Abstract!Size
    [] body = "add_neg"   -> (v + ((-c.arg) % Abstract!Size)) % Abstract!Size
    [] body = "xor_ones"  -> Abstract!Xor(v, Abstract!Size - 1)
    [] body = "clear_not" -> v - Abstract!And(v, Abstract!Not(c.arg))
    [] OTHER              -> Abstract!Result([c EXCEPT !.op = body], v)

\* What the call returns when the word changes from v to n; ok says that a
\* compare-and-swap has swapped.
Returned(how, c, v, n, ok) ==
  LET uint_max == 2^IntBits - 1
  IN CASE how = "void"        -> <<>>
       [] how = "old"         -> <<v>>
       [] how = "flag"        -> <<n = 0>>
       [] how = "again"       -> <<(v + (IF c.op = "inc_zero" THEN 1 ELSE -1)) % Abstract!Size = 0>>
       [] how = "bit"         -> <<Abstract!Bit(v, c.arg % w) = 1>>
       [] how = "success"     -> <<ok>>
       [] how = "success_old" -> <<ok, v>>
       [] how = "differs"     -> <<~ok>>
       [] how = "differs_old" -> <<~ok, v>>
       [] how = "was_ones"    -> <<v = Abstract!Size - 1>>
       [] how = "was_uint_max" -> <<v = uint_max>>
       [] how = "was_one"     -> <<v = 1>>
       [] how = "was_zero"    -> <<v = 0>>

-----------------------------------------------------------------------------
Start(how) == [instr |-> "instruction", llsc |-> "linked", casloop |-> "load", reread |-> "read"][how]

Init ==
  /\ platform \in Platforms
  /\ type \in {x[2] : x \in Provided(platform)}
  /\ w = Width(platform, type)
  /\ word \in Edges
  /\ \E mine \in Calls, other \in {c \in Calls : c.op \in Meddling /\ c.arg \in {0, 1}} :
       /\ call = [t \in Threads |-> IF t = Interferer THEN other ELSE mine]
       /\ \/ WithDefects
          \/ /\ <<platform, mine.op, type>> \notin WrongResult
             /\ <<platform, mine.op, type>> \in LostUpdate => other.op = "load"
  /\ reserved = {}
  /\ reg = [t \in Threads |-> 0]
  /\ seen = [t \in Threads |-> 0]
  /\ pc = [t \in Threads |-> Start(Impl(t).how)]
  /\ ret = [t \in Threads |-> Abstract!Pending]

\* The call returns, having seen v and left n.
Done(t, v, n, ok) ==
  /\ pc' = [pc EXCEPT ![t] = "done"]
  /\ ret' = [ret EXCEPT ![t] = Returned(Impl(t).ret, call[t], v, n, ok)]

\* A write to the word ends every reservation of it.
Write(n) == word' = n /\ reserved' = {}

\* One atomic instruction, or compiler builtin.
Instruction(t) ==
  LET n == NewValue(Impl(t).body, call[t], word)
  IN  /\ pc[t] = "instruction"
      /\ IF Impl(t).body = "keep" THEN UNCHANGED <<word, reserved>> ELSE Write(n)
      /\ Done(t, word, n, word = call[t].cmp)
      /\ UNCHANGED <<static, reg, seen>>

\* Load-linked; a compare-and-swap that sees another value ends here.
LoadLinked(t) ==
  /\ pc[t] = "linked"
  /\ reg' = [reg EXCEPT ![t] = word]
  /\ IF Impl(t).body = "cas" /\ LoadLinkedValue(word) # CompareOperand(call[t].cmp)
     THEN Done(t, word, word, FALSE) /\ UNCHANGED reserved
     ELSE /\ pc' = [pc EXCEPT ![t] = "conditional"]
          /\ reserved' = reserved \cup {t}
          /\ UNCHANGED ret
  /\ UNCHANGED <<static, word, seen>>

\* Store-conditional stores while the reservation holds.
StoreConditional(t) ==
  LET n == NewValue(Impl(t).body, call[t], reg[t])
  IN  /\ pc[t] = "conditional"
      /\ t \in reserved
      /\ Write(n)
      /\ Done(t, reg[t], n, TRUE)
      /\ UNCHANGED <<static, reg, seen>>

\* It fails when the reservation is lost, for whatever reason, and the loop
\* starts again.
StoreFails(t) ==
  /\ pc[t] = "conditional"
  /\ reserved' = reserved \ {t}
  /\ pc' = [pc EXCEPT ![t] = "linked"]
  /\ UNCHANGED <<static, word, reg, seen, ret>>

\* punt = ck_pr_md_load_S(target) of the fallbacks.
Load(t) ==
  /\ pc[t] = "load"
  /\ reg' = [reg EXCEPT ![t] = word]
  /\ pc' = [pc EXCEPT ![t] = "cas"]
  /\ UNCHANGED <<static, word, reserved, seen, ret>>

\* Mutant: previous is not refreshed by a failed compare-and-swap.
CasValueStale(t) ==
  LET n == NewValue(Impl(t).body, call[t], reg[t])
  IN  /\ pc[t] = "cas"
      /\ IF word = reg[t]
         THEN Write(n) /\ Done(t, word, n, TRUE)
         ELSE UNCHANGED <<word, reserved, pc, ret>>
      /\ UNCHANGED <<static, reg, seen>>

\* ck_pr_cas_S_value(target, previous, P(previous), &previous), until it
\* succeeds.
CasValue(t) ==
  LET n == NewValue(Impl(t).body, call[t], reg[t])
  IN  /\ pc[t] = "cas"
      /\ IF word = reg[t]
         THEN Write(n) /\ Done(t, word, n, TRUE) /\ UNCHANGED reg
         ELSE reg' = [reg EXCEPT ![t] = word] /\ UNCHANGED <<word, reserved, pc, ret>>
      /\ UNCHANGED <<static, seen>>

\* s390x: the new value comes from one load of *target, the value compared
\* from another; the compiler may make them one.
Read(t) ==
  /\ pc[t] = "read"
  /\ reg' = [reg EXCEPT ![t] = word]
  /\ \/ pc' = [pc EXCEPT ![t] = "reread"] /\ UNCHANGED seen
     \/ pc' = [pc EXCEPT ![t] = "sync"] /\ seen' = [seen EXCEPT ![t] = word]
  /\ UNCHANGED <<static, word, reserved, ret>>

ReadAgain(t) ==
  /\ pc[t] = "reread"
  /\ seen' = [seen EXCEPT ![t] = word]
  /\ pc' = [pc EXCEPT ![t] = "sync"]
  /\ UNCHANGED <<static, word, reserved, reg, ret>>

Sync(t) ==
  LET n == NewValue(Impl(t).body, call[t], reg[t])
  IN  /\ pc[t] = "sync"
      /\ IF word = seen[t]
         THEN Write(n) /\ Done(t, word, n, TRUE)
         ELSE pc' = [pc EXCEPT ![t] = "read"] /\ UNCHANGED <<word, reserved, ret>>
      /\ UNCHANGED <<static, reg, seen>>

Step(t) ==
  \/ Instruction(t)
  \/ LoadLinked(t) \/ StoreConditional(t) \/ StoreFails(t)
  \/ Load(t) \/ CasValue(t)
  \/ Read(t) \/ ReadAgain(t) \/ Sync(t)

Next == \E t \in Threads : Step(t)

\* A thread runs until it returns, and a store-conditional that is tried again
\* and again succeeds, as the architectures guarantee for such loops.
Fairness == \A t \in Threads : WF_vars(Step(t)) /\ SF_vars(StoreConditional(t))

Spec == Init /\ [][Next]_vars /\ Fairness

-----------------------------------------------------------------------------
(* The atomic operations and the fences: a behaviour is about one or about   *)
(* the other.                                                                *)

allVars == <<vars, fenceVars>>

Idle == [platform |-> "none", hw |-> "tso", mm |-> "tso"]

WordInit == Init /\ machine = Idle /\ fence = "none" /\ first = "l" /\ second = "l" /\ performed = <<>>
OrderInit ==
  /\ FenceInit
  /\ platform = "none" /\ type = "none" /\ w = 0 /\ word = 0 /\ reserved = {}
  /\ call = [t \in Threads |-> [op |-> "load", arg |-> 0, cmp |-> 0]]
  /\ reg = [t \in Threads |-> 0] /\ seen = reg
  /\ pc = [t \in Threads |-> "done"] /\ ret = [t \in Threads |-> Abstract!Pending]

MCNext ==
  \/ Next /\ UNCHANGED fenceVars
  \/ machine # Idle /\ FenceNext /\ UNCHANGED vars

MCSpec == (WordInit \/ OrderInit) /\ [][MCNext]_allVars /\ Fairness

\* Linearizability: on every platform every ck_pr operation takes effect at one
\* instant and returns what the manual page of its name says, whatever the
\* other threads do between its instructions.
ImplementsAtomicWord == Abstract!Spec

\* Lock-freedom of the retry loops: when every thread makes one call, all calls
\* return.
CallsReturn == <>(\A t \in Threads : pc[t] = "done")
=============================================================================
