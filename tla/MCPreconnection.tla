-------------------------- MODULE MCPreconnection --------------------------
EXTENDS Preconnection

(* The two protocols of kernel.yaml and a third, TCP with multipath and    *)
(* without keepAlive.                                                      *)
TCP == {"reliability", "preserveOrder", "zeroRttMsg", "FullChecksumSend",
        "FullChecksumRecv", "activeReadBeforeSend", "congestionControl",
        "keepAlive"}
UDP == {"preserveMsgBoundaries", "zeroRttMsg", "FullChecksumSend",
        "FullChecksumRecv", "activeReadBeforeSend"}
MPTCP == (TCP \ {"keepAlive"}) \cup {"multipath"}

(* Within the table, beyond it and below it. *)
MCStaleCounts == {-1, 0, 1, 3}

MCDirectories == {<<UDP>>, <<TCP, MPTCP, TCP>>}
=============================================================================
