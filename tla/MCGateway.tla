----------------------------- MODULE MCGateway -----------------------------
(* Two commands, one of which arrives in two fragments; messages that are  *)
(* not: a status of another kind, one that breaks the contract, one too    *)
(* long for the buffer.  Files: the right ones, one of the right size with *)
(* other contents, one for another version.                                *)
EXTENDS GatewayManager

Command(id, version, size, crc) ==
    [schema |-> 1, update_id |-> id, target_version |-> version, image_size |-> size,
     image_crc32 |-> crc, https |-> TRUE]

Payload(n, json) == [topic |-> "command", length |-> n, json |-> json]

Good == {Payload(3, Command(1, 2, 8, 21)), Payload(2, Command(2, 3, 9, 32))}

MCPayloads ==
    Good \cup {Payload(3, Command(3, 2, 5, 32)), Payload(5, Command(4, 2, 8, 21))}

(* One of each way to be no command.                                       *)
MCStrangePayloads ==
    {Payload(3, Command(1, 2, 8, 21)),
     [Payload(3, Command(1, 2, 8, 21)) EXCEPT !.topic = "other"],
     Payload(3, <<>>), Payload(3, Command(0, 2, 8, 21)), Payload(3, Command(5, -1, 8, 21)),
     Payload(2, Command(5, 0, 8, 21)), Payload(2, [Command(5, 2, 8, 21) EXCEPT !.schema = 2]),
     Payload(2, [Command(5, 2, 8, 21) EXCEPT !.https = FALSE])}

MCFiles == {[size |-> 8, crc |-> 21, container_target |-> 2],
            [size |-> 8, crc |-> 22, container_target |-> 2],
            [size |-> 9, crc |-> 32, container_target |-> 3],
            [size |-> 8, crc |-> 21, container_target |-> 3]}
=============================================================================
