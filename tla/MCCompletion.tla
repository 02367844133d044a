---------------------------- MODULE MCCompletion ----------------------------
(* Instances of Completion for TLC.                                         *)
EXTENDS Completion

\* Argument texts.  One with a piece lost or repeated may be another object.
Empty == <<"{", "}">>
One == <<"{", "1", "}">>
Eleven == <<"{", "1", "1", "}">>
Texts == {Empty, One, Eleven}
CallOf(id, name, args) == [id |-> id, name |-> name, args |-> args]
Say(content, calls) == [content |-> content, calls |-> calls]

\* Text, one call, two calls with and without text; two calls under one id, a
\* name that was not offered, an argument that is no object or too long, and
\* more calls than a response may hold.
Meant ==
    {Say(<<"a", "b">>, <<>>),
     Say(<<>>, <<CallOf("c0", "search", One)>>),
     Say(<<"a">>, <<CallOf("c0", "search", Empty), CallOf("c1", "rename", One)>>),
     Say(<<>>, <<CallOf("c0", "search", Empty), CallOf("c0", "search", Empty)>>),
     Say(<<>>, <<CallOf("c0", "unoffered", Empty)>>),
     Say(<<>>, <<CallOf("c0", "search", <<"}", "[">>)>>),
     Say(<<>>, <<CallOf("c0", "search", Append(Eleven, "}"))>>),
     Say(<<>>, <<CallOf("c0", "search", Empty), CallOf("c1", "rename", Empty),
                 CallOf("c2", "search", Empty)>>)}

Field(id, typed, name, args) ==
    [index |-> 0, id |-> id, typed |-> typed, name |-> name, args |-> args]
Chunks(content, deltas, finish) == [content |-> content, deltas |-> deltas, finish |-> finish]

\* At a used index an id, a name, a piece, nothing, or a whole call; a call at
\* the next index and one past the limit; text, and ends.
Invented ==
    {Chunks(<<>>, <<Field("c9", FALSE, "NoName", <<>>)>>, "none"),
     Chunks(<<>>, <<Field("NoId", FALSE, "rename", <<>>)>>, "none"),
     Chunks(<<>>, <<Field("NoId", FALSE, "NoName", <<"1">>)>>, "none"),
     Chunks(<<>>, <<Field("NoId", FALSE, "NoName", <<>>)>>, "none"),
     Chunks(<<>>, <<Field("c9", TRUE, "rename", Empty)>>, "none"),
     Chunks(<<>>, <<[Field("c9", TRUE, "rename", Empty) EXCEPT !.index = 1]>>, "none"),
     Chunks(<<>>, <<[Field("c9", TRUE, "search", Empty) EXCEPT !.index = 2]>>, "none"),
     Chunks(<<"z">>, <<>>, "none"),
     Chunks(<<>>, <<>>, "stop"), Chunks(<<>>, <<>>, "tool_calls")}
=============================================================================
