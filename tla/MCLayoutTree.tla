---------------------------- MODULE MCLayoutTree ----------------------------
(* Skins of three groupdefs that name each other, skins with a frame, and skins   *)
(* in files that include each other; among them some in which an inherit_group or *)
(* a tag has the name of a scope that the window has no instance of.             *)
EXTENDS LayoutTree

Spellings == [n \in {"a", "A", "b", "c", "g", "main", "Main", "normal", "other"} |->
                 CASE n = "A" -> "a" [] n = "Main" -> "main" [] OTHER -> n]
Names == <<"a", "b", "c">>
Positions == {-1, 0, 1, 3, 4, 6}

Leaf(i) == [Bare("leaf") EXCEPT !.id = i]
Group(n) == [Bare("group") EXCEPT !.id = n, !.of = n]
ScopedGroup(n, i) == [Group(n) EXCEPT !.iid = i]
With(n, c) == [Group(n) EXCEPT !.content = c]
Xui(n, i) == [Bare("xui") EXCEPT !.id = i, !.of = n]
Fade(n) == [Bare("groupxfade") EXCEPT !.id = "pages", !.page = n]
Bucket == [Bare("componentbucket") EXCEPT !.id = "bucket"]
Framed(m, n, f) ==
    [Bare("wasabi_frame") EXCEPT !.id = "frame", !.panes = <<m, n>>, !.split = f]
Run(f) == [Bare("script") EXCEPT !.of = f]
Send(i, to, v) == [Bare("sendparams") EXCEPT !.iid = i, !.id = to, !.value = v]
Holding(el, kids) == [el EXCEPT !.kids = kids]
Include(f) == [Bare("include") EXCEPT !.of = f]
Error == Bare("error")

Container(i, l, kids) ==
    Holding([Bare("container") EXCEPT !.id = i], <<Holding([Bare("layout") EXCEPT !.id = l], kids)>>)

(* A groupdef of the name n: by its id, or only by its tag.                      *)
Def(n, i, inh, kids) ==
    [Bare("groupdef") EXCEPT !.id = i, !.of = n, !.inherit = inh,
                             !.kids = <<Run("s" \o n)>> \o kids, !.wndtype = n # "a"]

OneFile(text) == [main |-> "m", at |-> "m" :> text]

Sends == <<Send("i", "lc", "1"), Send(None, "lc", "2")>>

Skin(a, b, c, layout) == OneFile(<<a, b, c, Container("main", "normal", layout \o Sends)>>)

Bodies(x) == {<<Leaf(x)>>, <<Group("a")>>, <<Group("b"), Leaf(x)>>, <<Xui("b", "x"), Group("c")>>,
              <<Bucket>>, <<With("b", "c")>>, <<ScopedGroup("c", "i")>>}

Layouts == {<<Group("a"), Group("b")>>, <<Xui("a", "x1"), Xui("a", "x2")>>,
            <<With("a", "c"), ScopedGroup("c", "i")>>, <<With("b", "A")>>, <<Fade("a"), Group("b")>>}

Grouped ==
    {Skin(Def("a", "a", ia, ba), Def("b", ib, jb, bb), Def("c", "c", None, bc), l) :
        ia \in {None, "b", "A"}, ba \in Bodies("la"), ib \in {"b", None}, jb \in {None, "a"},
        bb \in Bodies("lb"), bc \in {<<Leaf("lc")>>, <<Group("a")>>}, l \in Layouts}

Splits == [far : BOOLEAN, min : {0, 2}, divpos : {2}]

Divided ==
    {Skin(Def("a", "a", None, <<>>), [Def("b", "b", None, <<Leaf("lb")>>) EXCEPT !.relative = r],
          [Def("c", "c", None, <<Leaf("lc")>>) EXCEPT !.relative = r],
          <<Framed("b", "c", f), [Leaf("la") EXCEPT !.inherit = "a"]>>) : r \in BOOLEAN, f \in Splits}

(* A groupxfade that has kids before it has a page, elements without an id, and   *)
(* sendparams that say nothing.                                                  *)
Odd ==
    {Skin(Def("g", "g", ig, <<Holding(Fade("A"), <<Group("g"), ScopedGroup("c", "i"), l>>), l>>),
          Def("b", None, None, <<Leaf("lc")>>),
          [Def("c", "c", None, <<Xui("b", None), Leaf("lc")>>) EXCEPT !.value = v],
          <<Send("i", None, "3"), Send(None, "lc", v), Group("g"), Group("b")>>) :
        l \in {Leaf("lc"), Leaf(None)}, ig \in {None, "c"}, v \in {None, "4"}}

(* Two files, one of them at two paths, and what they may hold.                  *)
Texts(other) ==
    {<<>>, <<Run("sp"), [Bare("seekbar") EXCEPT !.id = "pos"]>>, <<Include("p/../p"), Include("gone")>>,
     <<Include(other), Def("b", "b", None, <<Include(other)>>)>>,
     <<Holding(Leaf("x"), <<Include(other), Error, Leaf("lost")>>), Run("lost")>>,
     <<Holding(Group("g"), <<Run("sg"), Include(other)>>), Include("m")>>,
     <<Send("i", "pos", "3"), Run(None), Def("a", "a", None, <<Include(other)>>)>>}

Mains ==
    {<<Include("p"), Include("q"), Container("Main", "other", <<Group("a"), Group("b")>>)>>,
     <<Holding(Def("a", "a", None, <<Include("p")>>), <<Include("p"), Leaf("la")>>),
       Container("other", "other", <<Run("so")>>),
       Container("main", "normal", <<ScopedGroup("a", "i"), Xui("other", None), Run("sn"), Include("q")>>)>>,
     <<Container("other", "normal", <<Run("so")>>), Container("main", "normal", <<Include("q"), Error>>),
       Include("p")>>,
     <<Include("p"), Bare("container")>>}

Included ==
    {[main |-> "m", at |-> ("m" :> m) @@ ("p" :> p) @@ ("p/../p" :> p) @@ ("q" :> q)] :
        m \in Mains, p \in Texts("q"), q \in Texts("p")}

AllSkins == Grouped \cup Divided \cup Odd \cup Included

(* The elements of the skins, by how deep they are.                              *)
Inside(els) == els \cup UNION {ToSet(el.kids) : el \in els}
Elements ==
    Inside(Inside(Inside(UNION {UNION {ToSet(s.at[path]) : path \in DOMAIN s.at} : s \in AllSkins})))
Deeper(els) == {el \in Elements : ToSet(el.kids) \subseteq els}
Depth1 == Deeper({})
Depth2 == Deeper(Depth1)
Depth3 == Deeper(Depth2)
Depth4 == Deeper(Depth3)
Depths == 0 :> {} @@ 1 :> Depth1 @@ 2 :> Depth2 @@ 3 :> Depth3 @@ 4 :> Depth4
=============================================================================
