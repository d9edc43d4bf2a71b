---------------------------- MODULE MCValueWalk ----------------------------
(* Values for model checking ValueWalk. *)
EXTENDS ValueWalk

CONSTANTS a, b, r, s, z

MCObjects == {a, b, r, s, z}

Cell(kind, items, size) == [kind |-> kind, items |-> items, size |-> size]

(* Two arrays, a reference, a string or a raw value at either side of the
   largest size or a matrix, and a null. *)
MCHeaps ==
  {[o \in MCObjects |->
      CASE o = a -> Cell("array", items, 0)
        [] o = b -> Cell("array", inner, 0)
        [] o = r -> Cell("reference", <<referent>>, 0)
        [] o = s -> last
        [] o = z -> Cell("null", <<>>, 0)] :
    items \in {<<>>, <<r, s>>, <<b, b>>},
    inner \in {<<s>>, <<z, r>>},
    referent \in {a, b, s},
    last \in {Cell("string", <<>>, 0), Cell("matrix", <<z, z>>, 0),
              Cell("raw", <<>>, 2), Cell("raw", <<>>, 3)}}

MCSignatures == {<<>>, <<a, r>>, <<b, s>>}
=============================================================================
