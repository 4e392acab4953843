------------------------------ MODULE Semantics ------------------------------
(***************************************************************************)
(* What a contract means, said without words, stack and heap: a big-step   *)
(* semantics of the syntax trees, in which variables hold values.  It is   *)
(* the specification the compiler and the interpreter together are checked *)
(* against, and covers int, bool, str, obj and arrays that no two          *)
(* variables share.  An obj is the sequence of its keys and values, which  *)
(* are texts, objs and lists of such values.                               *)
(*                                                                         *)
(* A state st gives each declared variable its value (env), each function  *)
(* of the contract its tree (fns), and how the last statement ended (flow: *)
(* "next", "break", "continue", "return" or "error") with its value or the *)
(* error (val).  Values carry their type: [t |-> "int", v |-> 3].          *)
(***************************************************************************)
EXTENDS Bytecode, Texts
LOCAL INSTANCE SequencesExt
LOCAL INSTANCE TLC

IntV(n)  == [t |-> "int", v |-> n]
BoolV(b) == [t |-> "bool", v |-> b]
StrV(s)  == [t |-> "str", v |-> s]
ArrV(es) == [t |-> "arr", v |-> es]
NoV      == [t |-> "void", v |-> <<>>]
ObjV(es) == [t |-> "obj", v |-> es]     \* a sequence of [key, val]
ListV(vs) == [t |-> "list", v |-> vs]
ZeroOf(type) == CASE MainType(type) = VInt -> IntV(0)
                  [] MainType(type) = VBool -> BoolV(FALSE)
                  [] MainType(type) = VStr -> StrV(<<>>)
                  [] MainType(type) = VArr -> ArrV(<<>>)
                  [] MainType(type) = VObject -> ObjV(<<>>)

\* The text a contract returns for a value.
ShownScalar(x) == CASE x.t = "int" -> Sprint(x.v)
                    [] x.t = "bool" -> SprintBool(IF x.v THEN 1 ELSE 0)
                    [] x.t = "str" -> x.v
                    [] x.t = "void" -> <<>>
RECURSIVE Strip(_), ShownTree(_), JsonText(_), Plain(_)
Strip(s) == IF s # <<>> /\ s[Len(s)] = 32 THEN Strip(SubSeq(s, 1, Len(s) - 1)) ELSE s
Bracketed(ts, sep) == <<91>> \o Separated(ts, sep) \o <<93>>
ShownTree(x) ==
  CASE x.t = "str"  -> x.v
    [] x.t = "list" -> Bracketed([k \in 1..Len(x.v) |-> ShownTree(x.v[k])], <<32>>)
    [] x.t = "obj"  -> LET item(k) == x.v[k].key \o <<58>> \o ShownTree(x.v[k].val) \o <<32>>
                       IN Strip(<<109, 97, 112, 91>> \o Concat([k \in 1..Len(x.v) |-> item(k)]))
                          \o <<93>>
InQuotes(s) == <<34>> \o s \o <<34>>
JsonText(x) ==
  CASE x.t = "str"  -> InQuotes(x.v)
    [] x.t = "list" -> Bracketed([k \in 1..Len(x.v) |-> JsonText(x.v[k])], <<44>>)
    [] x.t = "obj"  -> LET item(k) == InQuotes(x.v[k].key) \o <<58>> \o JsonText(x.v[k].val)
                       IN <<123>> \o Separated([k \in 1..Len(x.v) |-> item(k)], <<44>>) \o <<125>>
Shown(x) == IF x.t = "obj" THEN ShownTree(x) ELSE IF x.t # "arr" THEN ShownScalar(x)
            ELSE <<91>> \o Separated([k \in 1..Len(x.v) |-> ShownScalar(x.v[k])], <<32>>) \o <<93>>

\* A value put into an object or a list: objects and lists as they are, or their
\* texts in a [key: value] list, texts for all others.
Stored(x) == IF x.t \in {"obj", "list"} THEN x ELSE StrV(Shown(x))
Plain(x) == CASE x.t = "obj"  -> StrV(ShownTree(x))
              [] x.t = "list" -> ListV([k \in 1..Len(x.v) |-> Plain(x.v[k])])
              [] OTHER -> x
\* The object es with val under key.
Put1(es, key, val) ==
  IF \E k \in DOMAIN es : es[k].key = key
  THEN [k \in DOMAIN es |-> IF es[k].key = key THEN [key |-> key, val |-> val] ELSE es[k]]
  ELSE Append(es, [key |-> key, val |-> val])
\* What the library says of the key k of the object o.
Lookup(name, o, k) ==
  LET hits == {j \in DOMAIN o.v : o.v[j].key = k}
      held == o.v[CHOOSE j \in hits : TRUE].val
      is(type) == BoolV(hits # {} /\ held.t = type)
  IN CASE name = "IsExists" -> BoolV(hits # {})
       [] name = "IsString" -> is("str")
       [] name = "IsArray"  -> is("list")
       [] name = "IsMap"    -> is("obj")
       [] name = "GetString" -> StrV(IF hits = {} THEN <<>> ELSE ShownTree(held))
       [] name = "GetArray"  -> ArrV(IF hits = {} THEN <<>> ELSE
            IF held.t = "list" THEN [n \in 1..Len(held.v) |-> StrV(ShownTree(held.v[n]))]
                               ELSE <<StrV(ShownTree(held))>>)
Lookups == {"IsExists", "IsString", "IsArray", "IsMap", "GetString", "GetArray"}
\* The part of s that begins after from and is n long, with n < 0 before from; the
\* rest of s if n is 0; nothing if that is not in s.
Part(s, from, n) ==
  LET a == IF n < 0 THEN from + n ELSE from
      b == IF n < 0 THEN from ELSE IF n = 0 THEN Len(s) ELSE from + n
  IN IF a < 0 \/ a >= Len(s) \/ b > Len(s) THEN <<>> ELSE <<SubSeq(s, a + 1, b)>>

\* The quotient of a and b # 0, cut towards zero.
Quotient(a, b) ==
  LET size == IF a < 0 THEN -a ELSE a
      rest(q) == a - q * b
  IN CHOOSE q \in -size..size :
       /\ (IF b < 0 THEN b < rest(q) /\ rest(q) < -b ELSE -b < rest(q) /\ rest(q) < b)
       /\ rest(q) # 0 => (rest(q) < 0) = (a < 0)

\* The value of x op y.
Applied(op, x, y) ==
  CASE op = "+" /\ x.t = "int" -> IntV(x.v + y.v)
    [] op = "-"  -> IntV(x.v - y.v)
    [] op = "*"  -> IntV(x.v * y.v)
    [] op = "/"  -> IntV(Quotient(x.v, y.v))
    [] op = "%"  -> IntV(x.v - y.v * Quotient(x.v, y.v))
    [] op = "+" /\ x.t = "str" -> StrV(x.v \o y.v)
    [] op = "+" /\ x.t = "arr" -> ArrV(Append(x.v, y))
    [] op = "==" -> BoolV(x.v = y.v)
    [] op = "!=" -> BoolV(x.v # y.v)
    [] op = "<"  -> BoolV(x.v < y.v)
    [] op = ">"  -> BoolV(x.v > y.v)
    [] op = "<=" -> BoolV(x.v <= y.v)
    [] op = ">=" -> BoolV(x.v >= y.v)
Divides == {"/", "%"}
Compound == [op \in {"+=", "-=", "*=", "/=", "%="} |->
  CASE op = "+=" -> "+" [] op = "-=" -> "-" [] op = "*=" -> "*" [] op = "/=" -> "/" [] op = "%=" -> "%"]

With(st, val)   == [st EXCEPT !.val = val]
Raise(st, e)    == [st EXCEPT !.flow = "error", !.val = e]
Bind(st, x, v)  == [st EXCEPT !.env = (x :> v) @@ @]
\* The value of x op y after st.
Result(st, op, x, y) ==
  IF op \in Divides /\ y.v = 0 THEN Raise(st, "errDivZero") ELSE With(st, Applied(op, x, y))

-----------------------------------------------------------------------------
RECURSIVE Run(_, _, _), RunAll(_, _, _), EvalAll(_, _, _), Meaning(_, _, _), Repeat(_, _, _, _, _),
          Choose(_, _, _, _), Each(_, _, _, _, _)

Body(ss) == [n |-> "block", pars |-> <<>>, body |-> ss]

\* The expressions es from left to right: the state, and their values.
EvalAll(es, st, lib) ==
  IF es = <<>> THEN [st |-> st, vals |-> <<>>]
  ELSE LET before == EvalAll(Front(es), st, lib)
           t == Run(Last(es), before.st, lib)
       IN [st |-> t, vals |-> Append(before.vals, t.val)]

\* The value of e in the state st; lib is the set of the other contracts.
Expression(e, st, lib) ==
  CASE e.n = "int"  -> With(st, IntV(e.v))
    [] e.n = "bool" -> With(st, BoolV(e.v))
    [] e.n = "str"  -> With(st, StrV(e.v))
    [] e.n = "get"  -> With(st, st.env[e.name])
    [] e.n = "arr"  -> LET all == EvalAll(e.es, st, lib) IN
                       IF all.st.flow = "error" THEN all.st ELSE With(all.st, ArrV(all.vals))
    [] e.n \in {"obj", "objarr"} ->
         LET all == EvalAll([k \in 1..Len(e.items) |-> e.items[k].e], st, lib)
             vals == [k \in 1..Len(all.vals) |-> Stored(all.vals[k])]
             set[k \in 0..Len(vals)] ==
               IF k = 0 THEN <<>> ELSE Put1(set[k - 1], e.items[k].key[1], vals[k])
         IN IF all.st.flow = "error" THEN all.st
            ELSE With(all.st, IF e.n = "objarr" THEN ListV(vals) ELSE ObjV(set[Len(vals)]))
    [] e.n = "objlist" ->
         LET o == Run(e.obj, st, lib)
             alone(k) == ObjV(<<[o.val.v[k] EXCEPT !.val = Plain(@)]>>)
         IN IF o.flow = "error" THEN o
            ELSE With(o, ListV([k \in 1..Len(o.val.v) |-> alone(k)]))
    [] e.n = "bin" /\ e.op \in {"&&", "||"} ->
         LET l == Run(e.l, st, lib)
         IN IF l.flow = "error" \/ l.val.v = (e.op = "||") THEN l ELSE Run(e.r, l, lib)
    [] e.n = "bin" /\ e.op \notin {"&&", "||"} ->
         LET l == Run(e.l, st, lib)
             r == Run(e.r, l, lib)
         IN IF r.flow = "error" THEN r ELSE Result(r, e.op, l.val, r.val)
    [] e.n = "un" -> LET x == Run(e.e, st, lib) IN
         IF x.flow = "error" THEN x
         ELSE With(x, IF e.op = "!" THEN BoolV(~x.val.v) ELSE IntV(-x.val.v))
    [] e.n = "quest" -> LET c == Run(e.c, st, lib) IN
         IF c.flow = "error" THEN c ELSE Run(IF c.val.v THEN e.l ELSE e.r, c, lib)
    [] e.n = "index" ->
         LET i == Run(e.ix[1], st, lib)
             items == st.env[e.name].v
         IN IF i.flow = "error" THEN i
            ELSE IF i.val.v \notin 0..Len(items) - 1 THEN Raise(i, "errIndexOut")
            ELSE With(i, items[i.val.v + 1])
    [] e.n = "contract" ->
         LET all == EvalAll([k \in 1..Len(e.args) |-> e.args[k].e], st, lib)
             names == {e.args[k].name : k \in 1..Len(e.args)}
             given == [x \in names |-> all.vals[CHOOSE k \in 1..Len(e.args) : e.args[k].name = x]]
             end == Meaning(CHOOSE c \in lib : c.name = e.name, given, lib)
         IN IF all.st.flow = "error" THEN all.st
            ELSE IF end.flow = "error" THEN Raise(all.st, end.val) ELSE With(all.st, end.val)
    [] e.n = "call" ->
         LET all == EvalAll(e.args, st, lib)
             f == st.fns[e.name]
             bound == [x \in {f.pars[k].name : k \in 1..Len(f.pars)} |->
                         all.vals[CHOOSE k \in 1..Len(f.pars) : f.pars[k].name = x]]
             end == Run(f.body, [all.st EXCEPT !.env = bound @@ @], lib)
         IN IF all.st.flow = "error" THEN all.st
            ELSE CASE e.name = "Len" -> With(all.st, IntV(Len(all.vals[1].v)))
                   [] e.name = "str" -> With(all.st, StrV(ShownScalar(all.vals[1])))
                   [] e.name \in Lookups -> With(all.st, Lookup(e.name, all.vals[1], all.vals[2].v))
                   [] e.name = "JSONEncode" -> With(all.st, StrV(JsonText(all.vals[1])))
                   [] e.name = "Substr" ->
                        LET part == Part(all.vals[1].v, all.vals[2].v, all.vals[3].v)
                        IN IF part = <<>> THEN Raise(all.st, "errInvalidParam")
                           ELSE With(all.st, StrV(part[1]))
                   [] OTHER -> IF end.flow = "error" THEN end ELSE [end EXCEPT !.flow = "next"]

\* The statements ss one after another, until one leaves the sequence.
RunAll(ss, st, lib) ==
  IF ss = <<>> THEN st ELSE RunAll(Tail(ss), Run(Head(ss), st, lib), lib)

\* Declaring a variable gives it the zero value of its type, or its default.
DeclareIn(list, st, lib) ==
  RunAll([k \in 1..Len(list) |-> [n |-> "zero", var |-> list[k]]], st, lib)

\* while c body next: next runs after the body and after a continue in it.
Repeat(c, body, next, st, lib) ==
  LET t == Run(c, st, lib)
      b == Run(body, t, lib)
  IN IF t.flow = "error" \/ ~t.val.v THEN t
     ELSE CASE b.flow = "break" -> [b EXCEPT !.flow = "next"]
            [] b.flow \in {"next", "continue"} ->
                 Repeat(c, body, next, Run(Body(next), [b EXCEPT !.flow = "next"], lib), lib)
            [] OTHER -> b

\* The arms of an if: the first whose condition holds.
Choose(arms, other, st, lib) ==
  IF arms = <<>> THEN Run(Body(other), st, lib) ELSE
  LET c == Run(arms[1].c, st, lib)
  IN IF c.flow = "error" THEN c
     ELSE IF c.val.v THEN Run(arms[1].body, c, lib) ELSE Choose(Tail(arms), other, c, lib)

\* The loop s over the items from the index k on.
Each(s, items, k, st, lib) ==
  LET next == [st EXCEPT !.flow = IF @ = "continue" THEN "next" ELSE @]
  IN IF k >= Len(items) \/ next.flow # "next" THEN next
     ELSE Each(s, items, k + 1,
               Run(Body(s.body), Bind(Bind(next, s.key, IntV(k)), s.var, items[k + 1]), lib), lib)

\* What the statement s does in the state st.
Statement(s, st, lib) ==
  CASE s.n = "block"  -> RunAll(s.body, st, lib)
    [] s.n = "func"   -> [st EXCEPT !.fns = (s.name :> s) @@ @]
    [] s.n = "vars"   -> DeclareIn(s.list, st, lib)
    [] s.n = "zero"   -> RunAll(s.var.exp, Bind(st, s.var.name, ZeroOf(s.var.type)), lib)
    [] s.n = "return" -> LET t == IF s.e = <<>> THEN With(st, NoV) ELSE Run(s.e[1], st, lib)
                         IN IF t.flow = "error" THEN t ELSE [t EXCEPT !.flow = "return"]
    [] s.n \in {"break", "continue"} -> [st EXCEPT !.flow = s.n]
    [] s.n = "while"  -> Repeat(s.c, s.body, <<>>, st, lib)
    [] s.n = "if"     -> Choose(s.arms, s.other, st, lib)
    [] s.n = "switch" ->
         LET v == Run(s.e, st, lib)
             tests(k) == EvalAll(s.cases[k].es, v, lib).vals
             hits == {k \in 1..Len(s.cases) : \E j \in DOMAIN tests(k) : tests(k)[j] = v.val}
         IN IF v.flow = "error" THEN v
            ELSE IF hits = {} THEN Run(Body(s.other), v, lib)
            ELSE Run(s.cases[CHOOSE k \in hits : \A j \in hits : k <= j].body, v, lib)
    [] s.n = "forint" ->
         LET from == Run(s.from, st, lib)
             to   == Run(s.to, from, lib)
             x    == [n |-> "get", name |-> s.var]
             step == [n |-> "bin", op |-> "+=", l |-> [n |-> "set", name |-> s.var],
                      r |-> [n |-> "int", v |-> 1]]
         IN IF to.flow = "error" THEN to
            ELSE Repeat([n |-> "bin", op |-> "<=", l |-> x, r |-> [n |-> "int", v |-> to.val.v]],
                        Body(s.body), <<step>>, Bind(to, s.var, from.val), lib)
    [] s.n = "for" ->
         LET all == Run(s.e, st, lib)
             end == Each(s, all.val.v, 0, all, lib)
         IN IF all.flow = "error" THEN all
            ELSE IF end.flow = "break" THEN [end EXCEPT !.flow = "next"] ELSE end
    [] s.n = "bin" ->   \* an assignment
         LET t == IF s.l.n = "vars" THEN Run(s.l, st, lib) ELSE st
             x == IF s.l.n = "vars" THEN s.l.list[1].name ELSE s.l.name
             i == IF s.l.n = "index" THEN Run(s.l.ix[1], t, lib) ELSE With(t, IntV(0))
             items(u) == u.env[x].v
             r == IF i.flow # "error" /\ s.l.n = "index" /\ i.val.v \notin 0..Len(items(i)) - 1
                  THEN Raise(i, "errIndexOut") ELSE Run(s.r, i, lib)
             new == IF s.op = "=" \/ r.flow = "error" THEN r ELSE Result(r, Compound[s.op], r.env[x], r.val)
         IN IF new.flow = "error" THEN new
            ELSE IF s.l.n = "index"
            THEN Bind(r, x, ArrV([items(r) EXCEPT ![i.val.v + 1] = r.val]))
            ELSE Bind(new, x, new.val)

Statements == {"block", "func", "vars", "zero", "return", "break", "continue", "while", "if",
               "switch", "forint", "for"}
Run(n, st, lib) ==
  IF st.flow # "next" THEN st
  ELSE IF n.n \in Statements \/ (n.n = "bin" /\ n.op \in DOMAIN Compound \cup {"="})
  THEN Statement(n, st, lib) ELSE Expression(n, st, lib)

\* The contract source run with the values given for some of its parameters:
\* flow is "return" with the text in val, or "error" with the error.
Meaning(source, given, lib) ==
  LET pars == source.block.pars
      start == [env |-> <<>>, fns |-> <<>>, flow |-> "next", val |-> NoV]
      declared == Run([n |-> "vars", list |-> pars], start, lib)
      end == Run(Body(source.block.body), [declared EXCEPT !.env = given @@ @], lib)
  IN CASE end.flow = "error"  -> end
       [] end.flow = "return" -> With(end, StrV(Shown(end.val)))
       [] OTHER -> [end EXCEPT !.flow = "return", !.val = StrV(<<>>)]
=============================================================================
