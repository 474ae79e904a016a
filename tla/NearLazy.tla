-------------------------------- MODULE NearLazy --------------------------------
(***************************************************************************)
(* LazyCell, LazyOptionCell and the contract NearLazy: a cell under LAZ1   *)
(* and an optional one under OPT1, absent until they are written.          *)
(***************************************************************************)
EXTENDS FlatStorage

cell == <<"LAZ1", 0>>

optCell == <<"OPT1", 0>>

lazySet(s, value) == Marked(write(s, cell, value), status(s, cell))

\* A cell that is there is returned and not written.
lazyGetOrSet(s, value) ==
  IF cell \in DOMAIN s THEN Marked(s, s[cell]) ELSE Marked(write(s, cell, value), value)

optSet(s, value) == Marked(write(s, optCell, value), status(s, optCell))

optTake(s, fallback) == Marked(remove(s, optCell), read(s, optCell, fallback))

Run(s, method, arg) ==
  CASE method = "initialize" -> initialize(s, [key \in {Field("marker")} |-> arg])
    [] method = "lazySet" -> lazySet(s, arg)
    [] method = "lazyGetOrSet" -> lazyGetOrSet(s, arg)
    [] method = "optSet" -> optSet(s, arg)
    [] method = "optTake" -> optTake(s, arg)

View(s, method, arg) ==
  CASE method = "get" -> s[Field("marker")]
    [] method = "lazyGet" -> read(s, cell, 0)
    [] method = "optIsSome" -> status(s, optCell)
    [] method = "optGet" -> read(s, optCell, 0)
==============================================================================
