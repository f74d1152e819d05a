------------------------------ MODULE MCPlugins ------------------------------
EXTENDS Plugins

\* Each input with the outputs that tell most about it, and each output with
\* several inputs.
SomePairs == {<<"testpicture", "zmq">>, <<"opencv", "udp">>, <<"opencv", "zmq">>,
              <<"ptp2", "viewer">>, <<"ptp2", "zmq">>, <<"http", "viewer">>,
              <<"http", "zmq">>, <<"file", "viewer">>, <<"existing", "udp">>}

\* A picture that ends like the boundary begins, one that ends like a header,
\* one that does not fit the buffer of the http input, and one more.
SomePictures == <<<<Dash>>, <<CrLf, CrLf>>,
                  <<Text, Dash, Dash, Text, Ok, CrLf, Text>>, <<Dash, Dash>>>>
=============================================================================
