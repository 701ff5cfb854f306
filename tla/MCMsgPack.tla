------------------------------ MODULE MCMsgPack ------------------------------
(* Instances of MsgPack for TLC: values of every kind, with sizes on both  *)
(* sides of 31/32 and 255/256 bytes and of 15/16 items, where the format   *)
(* changes, and of 127/128, where the sign of the byte of a length does.   *)
EXTENDS MsgPack

SomeInts == {<<"uint8", 127>>, <<"uint8", 128>>, <<"int8", -32>>, <<"int8", -64>>, <<"int8", -39>>, <<"int8", -54>>,
             <<"int16", -2>>, <<"int64", 65536>>}
SomeSizes == [str   |-> {31, 32, 128, 255, 256},
              bin   |-> {127, 255, 256},
              ext   |-> {2, 3, 16, 255, 256},
              array |-> {0, 2, 15, 16},
              map   |-> {1, 15, 16}]
\* Enough to cut in every head, and in every payload.
SomeCuts == (0 .. 5) \cup {32, 33, 127, 128, 255, 256, 257, 258}
=============================================================================
