------------------------------ MODULE MCProcess ------------------------------
(* The shared objects of a worker process and its calls of AWS share no state: each    *)
(* behaviour runs one of them, the other rests.                                        *)
EXTENDS SharedObjects, OutboundCalls

VARIABLE part
mcVars == <<part, sharedVars, outboundVars>>

(* Each helper meets the ones it can disturb, in threes.                               *)
MCMix(x, y, z) == [c \in {"a", "b", "c"} |-> CASE c = "a" -> x [] c = "b" -> y [] c = "c" -> z]
MCMixes ==
    {MCMix("upload_file_to_s3", "fetch_json_from_s3", "head_s3_object"),
     MCMix("upload_json_to_s3", "delete_s3_object", "fetch_bytes_from_s3"),
     MCMix("send_email", "send_email", "generate_presigned_url"),
     MCMix("head_s3_object", "head_s3_object", "generate_presigned_url")}

MCInit ==
    /\ part \in {"shared", "outbound"}
    /\ SharedInit
    /\ OutboundInit /\ (part = "shared" => object = "absent" /\ kind = MCMix("head_s3_object", "head_s3_object", "generate_presigned_url"))

MCNext ==
    \/ part = "shared" /\ SharedNext /\ UNCHANGED <<part, outboundVars>>
    \/ part = "outbound" /\ OutboundNext /\ UNCHANGED <<part, sharedVars>>

MCSpec == MCInit /\ [][MCNext]_mcVars
==============================================================================
