----------------------- MODULE MCCertificateRegistry -----------------------
(***************************************************************************)
(* One asset and a handful of requests.                                    *)
(***************************************************************************)
EXTENDS CertificateRegistry

CONSTANTS r1, r2, r3, r4

MCThree == {r1, r2, r3}
MCFour == {r1, r2, r3, r4}
============================================================================
