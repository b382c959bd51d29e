------------------------------- MODULE Loops --------------------------------
(***************************************************************************)
(* Loops over a slice that build another one, as recursive functions of    *)
(* the number of elements the loop has passed.                             *)
(***************************************************************************)
EXTENDS Naturals, Sequences

\* The loop that appends the elements it wants to keep.
Kept(s, keep) ==
    LET kept[n \in 0 .. Len(s)] ==
            IF n = 0 THEN <<>>
            ELSE IF s[n] \in keep THEN Append(kept[n - 1], s[n])
                                  ELSE kept[n - 1]
    IN kept[Len(s)]

\* Writes to a strings.Builder, one after the other.
Joined(ss) ==
    LET joined[n \in 0 .. Len(ss)] ==
            IF n = 0 THEN <<>> ELSE joined[n - 1] \o ss[n]
    IN joined[Len(ss)]

\* strings.Split: a separator starts a new piece, which may stay empty; anything
\* else goes to the last one.
Cut(pieces, e, sep) ==
    IF e = sep THEN Append(pieces, <<>>)
               ELSE [pieces EXCEPT ![Len(pieces)] = Append(pieces[Len(pieces)], e)]

Pieces(s, sep) ==
    LET pieces[n \in 0 .. Len(s)] ==
            IF n = 0 THEN << <<>> >> ELSE Cut(pieces[n - 1], s[n], sep)
    IN pieces[Len(s)]
=============================================================================
