-------------------------- MODULE MCAsyncPipelines ---------------------------
(* Pipelines of two draw types: two of paths, one of which shares its vertex *)
(* shader with their ubershader, and the ubershader of images.               *)
EXTENDS AsyncPipelines

CONSTANTS uber, feather, clip, imageUber, plain, rich, image

MCKeys == {uber, feather, clip, imageUber}
MCUber == [k \in MCKeys |-> IF k = imageUber THEN imageUber ELSE uber]
MCVertices == {plain, rich, image}
MCVertex == [k \in MCKeys |-> CASE k = imageUber -> image
                             [] k = feather -> rich
                             [] OTHER -> plain]
=============================================================================
