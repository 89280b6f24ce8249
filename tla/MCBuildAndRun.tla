--------------------------- MODULE MCBuildAndRun ----------------------------
(***************************************************************************)
(* Two builds of a set of sources in one directory: two versions of one    *)
(* kernel, no kernel at all, type aliases alone, every way to fail (in     *)
(* kout, in the host compiler, in the device compiler) and every construct *)
(* of a kernel that the outliner translates into something else.           *)
(***************************************************************************)
EXTENDS BuildAndRun

D(n, k, t) == [name |-> n, kind |-> k, type |-> t, def |-> "here", included |-> FALSE,
               explicit |-> FALSE, init |-> FALSE, changed |-> FALSE]
N(n, d, a) == [node |-> n, decl |-> d, at |-> a]

x     == D("x", "variable", "plain")
y     == D("y", "variable", "plain")
field == D("field", "field", "plain")
f     == D("f", "function", "plain")
g     == [D("g", "function", "plain") EXCEPT !.def = "inline"]
h     == [D("h", "function", "plain") EXCEPT !.def = "header"]
hs    == [h EXCEPT !.included = TRUE]
undef == [D("undef", "function", "plain") EXCEPT !.def = "nowhere"]
libm  == [undef EXCEPT !.included = TRUE]
tmp   == D("tmp", "local", "plain")
ix    == D("ix", "index", "id1")
it    == D("it", "index", "id")
other == D("other", "variable", "id1")
key   == D("key", "variable", "id")
acc   == D("acc", "variable", "accessor")
aref  == D("aref", "variable", "accessor&")
table == D("table", "variable", "array")
list  == [table EXCEPT !.explicit = TRUE, !.init = TRUE]
ref   == D("ref", "variable", "reference")
own   == D("own", "variable", "own")
fresh == [x EXCEPT !.explicit = TRUE, !.init = TRUE]
alias == [acc EXCEPT !.explicit = TRUE, !.init = TRUE, !.changed = TRUE]
stale == [x EXCEPT !.explicit = TRUE, !.init = TRUE, !.changed = TRUE]

Kernel(n, i, captures, body) ==
  [name |-> "K", dim |-> n, launch |-> IF n = 0 THEN "single_task" ELSE "parallel_for",
   lambda |-> TRUE, index |-> i, captures |-> captures, body |-> body]

Reads(d) == N("names", d, 0)

Plain(captures) ==
  Kernel(1, "id", captures,
         <<N("declares", tmp, 0), Reads(tmp), Reads(f), Reads(ix), Reads(acc), Reads(x),
           N("member", field, 0)>>)

As(n, k) == [k EXCEPT !.name = n]

Src(ks, t) == [kernels |-> ks, aliases |-> FALSE, text |-> t]
Fine(k) == Src(<<k>>, "fine")

\* Kernels of one source that compile, each with a construct of its own.
Many == <<
  As("array_list", Kernel(1, "id", <<list>>, <<Reads(list)>>)),
  As("included", Kernel(1, "id", <<x>>, <<Reads(hs), Reads(libm), Reads(x)>>)),
  As("unnamed", Kernel(1, "unnamed", <<x, acc>>, <<Reads(acc), Reads(undef), Reads(x)>>)),
  As("idle", Kernel(2, "unnamed", <<x>>, <<>>)),
  As("square", Kernel(2, "id", <<x, acc>>, <<N("subscripts", it, 1), Reads(it), Reads(hs), Reads(x)>>)),
  As("task", Kernel(0, "id", <<x, y, acc>>, <<Reads(y), Reads(acc), N("returns", x, 1)>>)),
  As("unused", Plain(<<stale, acc>>)),
  As("old_value", [Plain(<<stale, acc>>) EXCEPT !.body[6] = Reads(stale)]),
  As("old_element", Kernel(1, "id", <<stale>>, <<N("subscripts", stale, 0)>>)),
  As("renamed", Kernel(1, "id", <<alias>>, <<Reads(alias)>>)),
  As("foreign", Kernel(1, "id", <<other>>, <<Reads(other), Reads(ix)>>)),
  As("foreign_at", Kernel(1, "item", <<key>>, <<N("subscripts", key, 0), N("subscripts", ix, 0)>>)),
  As("leaves_loop", Kernel(1, "id", <<x>>, <<Reads(x), N("returns", x, 1)>>)) >>

Versions == [
  first       |-> Fine(Plain(<<x, acc>>)),
  second      |-> Fine(Plain(<<acc, fresh>>)),
  both        |-> Src(<<As("L", Plain(<<x, acc>>)), Plain(<<x, acc>>)>>, "fine"),
  twice       |-> Src(<<Plain(<<x, acc>>), Plain(<<acc>>)>>, "fine"),
  many        |-> Src(Many, "fine"),
  none        |-> Src(<<>>, "fine"),
  alias_only  |-> [Src(<<>>, "fine") EXCEPT !.aliases = TRUE],
  broken      |-> Src(<<Plain(<<x, acc>>)>>, "syntax error"),
  header      |-> Src(<<>>, "unknown extension"),
  functor     |-> Fine([Kernel(0, "id", <<x>>, <<Reads(x)>>) EXCEPT !.lambda = FALSE]),
  counter     |-> Fine(Kernel(1, "other", <<x>>, <<Reads(x)>>)),
  groups      |-> Fine([Kernel(1, "id", <<x>>, <<Reads(x)>>) EXCEPT !.launch = "nd_range"]),
  by_ref      |-> Fine(Kernel(1, "id", <<aref>>, <<Reads(aref)>>)),
  array       |-> Fine(Kernel(1, "id", <<table>>, <<Reads(table)>>)),
  own_type    |-> Fine(Kernel(1, "id", <<own>>, <<Reads(own)>>)),
  reference   |-> Fine(Kernel(1, "id", <<ref>>, <<Reads(ref)>>)),
  inlined     |-> Fine(Kernel(1, "id", <<x>>, <<Reads(g), Reads(x)>>)),
  unincluded  |-> Fine(Kernel(1, "id", <<x>>, <<Reads(h), Reads(x)>>)),
  undefined   |-> Fine(Kernel(1, "id", <<x>>, <<Reads(undef), Reads(x)>>)),
  outside     |-> Fine(Kernel(1, "id", <<x, key>>, <<Reads(x), N("subscripts", key, 1)>>)),
  stray       |-> Fine(Kernel(0, "id", <<x>>, <<N("returns", x, 0)>>)) ]

\* The same as a function, which TLC evaluates once.
Code_ == [s \in DOMAIN Versions |-> Versions[s]]

MCSources == DOMAIN Code_

\* The sources that are edited and built again; every other one is built as it is.
Edited == {"first", "second", "both", "none", "alias_only", "broken"}

MCRevisions == {e \in Edited \X Edited : e[1] # e[2]}
=============================================================================
