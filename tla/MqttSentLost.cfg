\* What "data sent" is worth when the outbox expires messages.
SPECIFICATION Spec
CONSTANT Slots = {s1, s2}
INVARIANTS
    SentIsNotLost
