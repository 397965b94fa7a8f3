-------------------------------- MODULE MCHub --------------------------------
(***************************************************************************)
(* Constants for the run of the hub: one camera with a number vector and  *)
(* a BLOB vector, queues of two messages or three bytes.                   *)
(***************************************************************************)
EXTENDS HubProperties, TLC

MCDevice   == {"cam"}
MCOrder    == <<"exposure", "image">>
MCDeviceOf == [p \in Prop |-> "cam"]
MCBlobProp == {"image"}

\* A definition alone exceeds the budget of 3, a BLOB does with anything else, and
\* three small messages run into the capacity of the channel first.
MCSizeOf == [k \in Kind |-> CASE k = "def" -> 4
                              [] k = "blob" -> 3
                              [] OTHER -> 1]

\* What the camera's goroutine publishes.
Published == {<<"set", "exposure">>, <<"def", "exposure">>, <<"del", "exposure">>,
              <<"blob", "image">>}

\* getProperties: of everything, of one property.
Asks == {<<"*", "*">>, <<"cam", "exposure">>}

\* enableBLOB over the camera, or its image.
Enabling == {<<<<"cam", "*">>, "only">>, <<<<"cam", "image">>, "also">>}
=============================================================================
