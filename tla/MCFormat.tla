------------------------------ MODULE MCFormat -------------------------------
(***************************************************************************)
(* Instances of Format for TLC: a directive of every kind, followed by a   *)
(* letter and `%u', with arguments at the edges of short, int and long.    *)
(***************************************************************************)
EXTENDS Format

Then == [text |-> <<"t">>, flags |-> <<>>, size |-> <<>>, ext |-> <<>>, conv |-> <<"u">>]

Directives(flags, sizes, exts, convs) ==
  {[text |-> <<>>, flags |-> f, size |-> s, ext |-> e, conv |-> c] :
     f \in flags, s \in sizes, e \in exts, c \in convs}

Exts == {<<>>, <<"h">>, <<"l">>}

Words == {0, 10, 21, 64, 127}

AllFlags == {SelectSeq(<<"-", "+", "#", " ", "0">>, LAMBDA c : c \in f) : f \in SUBSET FlagChars}

IntegerDirectives ==
  Directives(AllFlags, {<<>>, <<"*">>}, Exts,
             {<<"d">>, <<"u">>, <<"o">>, <<"x">>, <<"X">>})

\* A width to the right that meets the end of the buffer, and one to the left.
IntegerCalls ==
  {[format |-> <<d, Then>>, args |-> (IF d.size = <<>> THEN <<>> ELSE <<w>>) \o <<v, u, 3, 3>>] :
     d \in IntegerDirectives, w \in {9, 28}, v \in Words, u \in {5, 14}}

OtherCalls ==
  {[format |-> f, args |-> <<v, w, 7, 100, 3, 3>>] :
     f \in {<<d, Then>> : d \in Directives({<<>>, <<"-">>, <<"0", "0">>},
                                           {<<>>, <<"*">>, <<"1", "2">>, <<".", "1">>, <<".", "*">>}, Exts,
                                           {<<"c">>, <<"s">>, <<"n">>, <<"p">>, <<"%">>, <<"i">>, <<"q">>})}
           \cup {<<Then, d>> : d \in Directives({<<>>, <<"-">>}, {<<>>, <<"*">>}, {<<>>}, {<<>>})},
     v \in {3, 30, 100}, w \in {7, 100}}

Calls == IntegerCalls \cup OtherCalls

Memory == [a \in {100} |-> <<"t", "t">>]

=============================================================================
