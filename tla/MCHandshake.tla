---------------------------- MODULE MCHandshake -----------------------------
EXTENDS Handshake

\* The sequence space ends inside the ClientHello, or inside the Finished.
MCIsns == {974, 784}
MCCuts == 0 .. 5
=============================================================================
