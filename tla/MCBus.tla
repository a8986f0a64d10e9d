-------------------------------- MODULE MCBus --------------------------------
(* Instances of Bus for TLC: four loaded types, of which h1 and h2 are      *)
(* handlers, plain is not, and one failed to load.                          *)
EXTENDS Bus

CONSTANTS h1, h2, plain, abstractHandler, m1, m2

MCTypes == {h1, h2, plain, abstractHandler}
MCMessages == {m1, m2}
MCLoadedTypes == <<h1, plain, NoType, abstractHandler, h2>>
MCHandles == [h \in MCTypes |-> CASE h = h1 -> {m1, m2} [] h = h2 -> {m1} [] OTHER -> {}]
MCInterfaces == {}
MCAbstracts == {abstractHandler}
MCNestedPrivates == {}
MCImplementors == {h1, h2, abstractHandler}
MCNoDefaultCtor == {h2}
MCNoNoDefaultCtor == {}
=============================================================================
