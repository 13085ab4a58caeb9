---------------------------- MODULE MCTcpTarget -----------------------------
(* nvmet_reqs are numbers; those of one parity share a slot of treqs.      *)
EXTENDS TcpTarget

MCSlotOf(r) == r % 2
MCEvents == {"CMD_ARR", "CMD_PROC", "R2T_QUEUED", "R2T_SENT", "DATA_ARR", "DATA_PROC",
             "DATA_DONE", "EXEC", "BE_ISSUE", "BE_DONE", "COMPLETE", "RSP_QUEUED",
             "C2H_SENT", "RSP_SENT", "SEND_DONE"}
=============================================================================
