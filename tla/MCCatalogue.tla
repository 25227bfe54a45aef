---------------------------- MODULE MCCatalogue ----------------------------
(* Instances of Catalogue for TLC: one category may be disabled; an update *)
(* moves the video to a category, or tags it, or moves it and drops its    *)
(* tags.                                                                   *)
EXTENDS Catalogue

CONSTANTS s1, c1, c2, tags

SomeEnabled == {{c1, c2}, {c1}}

SomePatches ==
  {[category |-> c1, tags |-> None], [category |-> c2, tags |-> None],
   [category |-> None, tags |-> tags], [category |-> c2, tags |-> NoTags]}

OneServer == [c \in Callers |-> s1]
=============================================================================
