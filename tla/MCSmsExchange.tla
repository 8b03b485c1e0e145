--------------------------- MODULE MCSmsExchange ---------------------------
(* Numbers of up to four keys; texts of up to eight characters of the      *)
(* alphabet (among them the septet 0 and an escape), of                    *)
(* KS C 5601 (a letter, a pair of the standard, one of each extension) and *)
(* of UCS2; a header of every length modulo seven.                         *)
EXTENDS SmsExchange

TheChars == [ascii |-> {<<64>>, <<91>>, <<122>>},
             ksc5601 |-> {<<65>>, <<176, 161>>, <<129, 65>>, <<161, 65>>},
             ucs2 |-> {<<65>>, <<44032>>}]
TheLengths == [ascii |-> 8, ksc5601 |-> 4, ucs2 |-> 3]
=============================================================================
