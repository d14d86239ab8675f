-------------------------------- MODULE MCGcdBus --------------------------------
EXTENDS GcdBusTop

(* tp2_multi_top.cpp: master i addresses coprocessor i.                    *)
Straight == [i \in Initiator |-> i]

(* Operands computed without, after one and after several subtractions;    *)
(* with one null operand the coprocessor never ends.                       *)
SomePairs == {<<2, 2>>, <<1, 3>>, <<0, 1>>}

(* The least that leaves a master polling for ever.                        *)
ZeroPairs == {<<1, 1>>, <<0, 1>>}
===============================================================================
