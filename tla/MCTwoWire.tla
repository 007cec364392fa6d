----------------------------- MODULE MCTwoWire -----------------------------
EXTENDS TwoWire

MCSendable == {<<48, 3, 255>>, <<129>>, <<>>, <<49>>, <<49, 144, 255>>}
=============================================================================
