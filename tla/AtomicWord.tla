----------------------------- MODULE AtomicWord -----------------------------
(***************************************************************************)
(* What ck_pr(3) promises: every operation on a word of w bits happens at  *)
(* one instant between its call and its return, changes the word as its    *)
(* name says, and returns what the manual says.                            *)
(***************************************************************************)
EXTENDS Integers

CONSTANTS Threads

VARIABLES
  w,       \* the width of the word, in bits
  word,    \* its value
  call,    \* thread -> the operation it calls and its arguments
  ret      \* thread -> what the call returned, or Pending

vars == <<w, word, call, ret>>

Pending == <<0, 0, 0>>    \* no call returns a triple
Size == 2^w
Bit(v, i) == (v \div 2^i) % 2
\* A word made of two words bit by bit.  Words have at most three bits here.
BitSum(f(_, _), a, b) ==
  (f(Bit(a, 0), Bit(b, 0)) + 2 * f(Bit(a, 1), Bit(b, 1)) + 4 * f(Bit(a, 2), Bit(b, 2))) % Size
And(a, b) == BitSum(LAMBDA x, y : x * y, a, b)
Xor(a, b) == BitSum(LAMBDA x, y : (x + y) % 2, a, b)
Or(a, b) == (a + b - And(a, b)) % Size
Not(a) == Size - 1 - a

\* The word after operation c.op with argument c.arg on a word that holds v.
\* The argument of a bit test is the offset of the bit, modulo the width.
Result(c, v) ==
  LET mask == 2^(c.arg % w)
  IN CASE c.op = "load"                -> v
       [] c.op \in {"store", "fas"}    -> c.arg
       [] c.op \in {"add", "faa"}      -> (v + c.arg) % Size
       [] c.op = "sub"                 -> (v - c.arg) % Size
       [] c.op = "and"                 -> And(v, c.arg)
       [] c.op = "or"                  -> Or(v, c.arg)
       [] c.op = "xor"                 -> Xor(v, c.arg)
       [] c.op = "not"                 -> Not(v)
       [] c.op \in {"neg", "neg_zero"} -> (-v) % Size
       [] c.op \in {"inc", "inc_zero"} -> (v + 1) % Size
       [] c.op \in {"dec", "dec_zero"} -> (v - 1) % Size
       [] c.op = "btc"                 -> Xor(v, mask)
       [] c.op = "btr"                 -> And(v, Not(mask))
       [] c.op = "bts"                 -> Or(v, mask)
       [] c.op \in {"cas", "cas_value"} -> IF v = c.cmp THEN c.arg ELSE v

\* What it returns.
Return(c, v) ==
  CASE c.op \in {"load", "faa", "fas"} -> <<v>>
    [] c.op = "cas"                    -> <<v = c.cmp>>
    [] c.op = "cas_value"              -> <<v = c.cmp, v>>
    [] c.op \in {"inc_zero", "dec_zero", "neg_zero"} -> <<Result(c, v) = 0>>
    [] c.op \in {"btc", "btr", "bts"}  -> <<Bit(v, c.arg % w) = 1>>
    [] OTHER                           -> <<>>

Init ==
  /\ word \in 0 .. Size - 1
  /\ ret = [t \in Threads |-> Pending]

Take(t) ==
  /\ ret[t] = Pending
  /\ word' = Result(call[t], word)
  /\ ret' = [ret EXCEPT ![t] = Return(call[t], word)]
  /\ UNCHANGED <<w, call>>

Next == \E t \in Threads : Take(t)

Spec == Init /\ [][Next]_vars
=============================================================================
