SPECIFICATION Spec
INVARIANT EncodingDeterministic
