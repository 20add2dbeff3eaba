----------------------------- MODULE MCSockets -----------------------------
(* Instances of Sockets for TLC. *)
EXTENDS Sockets

ThreeFds == 0..2

SmallPrograms ==
    {<<"bind", "try_clone">>, <<"connect", "Awakener::new">>, <<"new_pipe">>,
     <<"UdpSocket::bind">>}
==============================================================================
