---------------------------- MODULE MCTranslation ----------------------------
(***************************************************************************)
(* Constants of the translation's run.  The keys "in", "m", "pat" and "pa" *)
(* stand to each other as the code's: the first and the last are of the    *)
(* same length, and the last is the beginning of the third.                *)
(***************************************************************************)
EXTENDS Translation

MCpost_keys == <<<<105, 110>>, <<109>>, <<112, 97, 116>>, <<112, 97>>>>

Pair(k, v, s) == [key |-> k, val |-> v, sent |-> s]

\* Values and how they are sent: none, "a", "/" as %2F, "/b" as %2fb, "abcd".
A == <<<<97>>, <<97>>>>
Slash == <<<<47>>, <<37, 50, 70>>>>
Values == {<<<<>>, <<>>>>, A, Slash, <<<<47, 98>>, <<37, 50, 102, 98>>>>,
           <<<<97, 98, 99, 100>>, <<97, 98, 99, 100>>>>}
Plain == {v \in Values : v[1] = v[2]}

Whole(v, w, x, y) ==
    [n \in 1 .. 4 |-> Pair(MCpost_keys[n], <<v, w, x, y>>[n][1], <<v, w, x, y>>[n][2])]

Orders == {o \in [1 .. 4 -> 1 .. 4] : \A m, n \in 1 .. 4 : m # n => o[m] # o[n]}

\* The four keys in any order, and forms with keys missing, repeated or unknown.
MCForms ==
    {[n \in 1 .. 4 |-> Whole(v, w, w, y)[o[n]]] : o \in Orders, v \in Plain \ {A}, w \in Values \ {A, Slash}, y \in Values}
    \cup {<<Pair(k, v[1], v[1]), Pair(l, w[1], w[2])>> :
            k \in {MCpost_keys[1], <<120>>}, l \in {MCpost_keys[3], MCpost_keys[4], <<>>}, v \in Plain, w \in Values}
    \cup {<<Pair(MCpost_keys[4], v[1], v[2]), Pair(MCpost_keys[4], w[1], w[2])>> : v, w \in Values}
    \cup {[n \in 1 .. 5 |-> Pair(<<120>>, <<>>, <<>>)]}

\* Behind the form: nothing, or separators and escapes of another one.
MCBehind == {<<0, 0, 0, 0>>, <<61, 38, 37, 61>>, <<38, 61, 37, 38>>}
==============================================================================
