------------------------------ MODULE MCBroker ------------------------------
(* Instances of the broker for TLC.                                        *)
EXTENDS BrokerProperties, TLC

CONSTANTS c1, c2, c3

\* Call ids are interchangeable (not used with liveness properties).
CallIdSymmetry == Permutations(CallId)

\* Which connections send what, in each run.
Nobody == [k \in Kind |-> {}]

\* Names that are legal in every answer, and such that the Error of an unknown
\* object, which has the name twice, is over BUF_SIZE.
ShortNames == [m \in {"Error", "HasObjectResult", "Subscribed"} |-> {}]
LongErrors == [ShortNames EXCEPT !["Error"] = Object]

\* Two processes compete for one activated object; one of them also
\* reconfigures its service.
ActivationSends == [Nobody EXCEPT !["RegisterObject"] = {c1, c2}, !["Call"] = {c3},
                                  !["RegisterService"] = {c2}, !["Close"] = {c1, c3}]

\* A publisher, a subscriber that leaves, or is dropped for an oversized packet,
\* and one that stays.
PubSubSends == [Nobody EXCEPT !["Publish"] = {c1}, !["Subscribe"] = {c2, c3},
                              !["Close"] = {c2}, !["Oversized"] = {c2}]

\* Nobody leaves: a worker and two callers.
AnsweringSends == [Nobody EXCEPT !["RegisterObject"] = {c1}, !["Call"] = {c2, c3},
                                 !["HasObject"] = {c1}]

\* A process that calls and leaves, while another one calls.
OrphanSends == [Nobody EXCEPT !["Call"] = {c1, c2}, !["Close"] = {c1}]

\* Two clients that publish to each other, and call an object that one of them
\* registers, and leave.
StallSends == [Nobody EXCEPT !["RegisterObject"] = {c1}, !["Subscribe"] = {c1, c2},
                             !["Publish"] = {c1, c2}, !["Call"] = {c1, c2},
                             !["Close"] = {c1, c2}]
=============================================================================
