--------------------------- MODULE MCClassLoaders ---------------------------
(* Two threads; a class of the system still to be loaded, a user class and *)
(* a subclass of it with a constant pool, and a lambda's class.            *)
EXTENDS ClassLoaders

MCSupers ==
  [Object |-> <<>>, String |-> <<"Object">>, List |-> <<"Object">>,
   Main |-> <<"Object">>, Shape |-> <<"Object">>, Circle |-> <<"Object", "Shape">>,
   Lambda |-> <<"Object">>]

MCEntries ==
  {[kind |-> "class", of |-> "Main"], [kind |-> "ref", of |-> "Shape"],
   [kind |-> "string", of |-> "text"]}

MCAsked ==
  {Name(0, "List"), Name(0, "Circle"), Name(0, "Lambda"), Name(1, "List"),
   Name(2, "List"), Name(2, "int"), Name(2, "Shape")}
=============================================================================
