------------------------------ MODULE MCUartRx ------------------------------
(* What the earphone of the model checker sends: frames with no, one and two *)
(* bytes of content that look like a header, a frame without its last byte,  *)
(* the first byte of a header, and noise.                                    *)
EXTENDS UartRx

MCItems == {<<5, 91, 0, 0>>, <<5, 91, 1, 0, 5>>, <<5, 91, 2, 0, 5, 91>>,
            <<5, 91, 2, 0, 7>>, <<5>>, <<7>>}
=============================================================================
