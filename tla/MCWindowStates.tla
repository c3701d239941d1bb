--------------------------- MODULE MCWindowStates ---------------------------
(* Model checking of WindowStates: the multiplexer below the other watched objects in memory, *)
(* above them, as on Linux, where the main window lives on the stack and the rest on the      *)
(* heap, and between them.                                                                    *)
EXTENDS WindowStates

MultiplexerFirst == <<"multiplexer", "rules", "capture", "dock">>
MultiplexerLast == <<"rules", "capture", "dock", "multiplexer">>
MultiplexerBetween == <<"dock", "multiplexer", "capture", "rules">>

AllOrders == {MultiplexerFirst, MultiplexerLast, MultiplexerBetween}

WindowsAlike == Permutations(Windows)
=============================================================================
