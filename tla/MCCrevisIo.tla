----------------------------- MODULE MCCrevisIo -----------------------------
(* An instance of CrevisIo for TLC: one light and the relay.  In register mode the   *)
(* module does not restart and no write is late: there ImplementsOutputs and         *)
(* ShadowTruthful would fail.                                                        *)
EXTENDS CrevisIo

MCModes          == {"coil", "register"}
MCCoilFaults     == {"late", "restart", "kill"}
MCRegisterFaults == {"kill"}
=============================================================================
